---- MODULE Spec2Model ----
(***************************************************************************)
(* A model of the bandwidth plugin (plugins/meta/bandwidth/main.go) and of *)
(* the link helpers it rests on (pkg/ip/link_linux.go).                    *)
(*                                                                         *)
(* The kernel is modelled as two link tables, one per network namespace.   *)
(* The plugin's commands, makeVeth, RenameLink and the two functions that  *)
(* delete a link are modelled one kernel call at a time: what a function   *)
(* does between two kernel calls touches nothing another process can see   *)
(* and is part of the step of the call that follows (or, after the last    *)
(* call, of that call's step).  Invocations of the plugin are separate     *)
(* processes and hold no lock, so their calls interleave.                  *)
(***************************************************************************)
EXTENDS Integers, Sequences, FiniteSets, TLC

VARIABLES
    links,  \* the kernel's link tables: [Namespaces -> SUBSET link records]
    inv,    \* the plugin invocations: [InvProcs -> invocation record]
    call,   \* the call of a helper function: inputs, position and result
    mv      \* the makeVeth invocations: [VethProcs -> invocation record]

vars == <<links, inv, call, mv>>

(***************************************************************************)
(* Unsigned 64-bit integers.  TLC's integers are 32-bit, so a uint64 is    *)
(* four 16-bit limbs, most significant first.                              *)
(***************************************************************************)
Limb == 2^16

U64FromNat(n) == <<0, 0, n \div Limb, n % Limb>>

\* The value of a uint64 below 2^31 as a number.
U64ToNat(u) == u[3] * Limb + u[4]

U64IsZero(u) == u = <<0, 0, 0, 0>>

\* u / 8 (Go's integer division of a uint64): a shift right by three bits.
U64Div8(u) ==
    << u[1] \div 8,
       (u[1] % 8) * (Limb \div 8) + u[2] \div 8,
       (u[2] % 8) * (Limb \div 8) + u[3] \div 8,
       (u[3] % 8) * (Limb \div 8) + u[4] \div 8 >>

\* a >= b on uint64
U64GEq(a, b) ==
    \/ a = b
    \/ \E i \in 1..4 : a[i] > b[i] /\ \A j \in 1..(i - 1) : a[j] = b[j]

\* uint32(u): the low 32 bits
U64Lo32(u) == <<0, 0, u[3], u[4]>>

\* math.MaxUint32 = 2^32 - 1
MathMaxUint32 == <<0, 0, Limb - 1, Limb - 1>>

(***************************************************************************)
(* validateRateAndBurst                                                    *)
(***************************************************************************)
ErrBurstNotSet == "if rate is set, burst must also be set"
ErrRateNotSet == "if burst is set, rate must also be set"
ErrBurstTooBig == "burst cannot be more than 4GB"
Ok == "ok"

\* The comparison of the third case: burst/8 against the 32-bit maximum.
BurstOutOfRange(burst) == U64GEq(U64Div8(burst), MathMaxUint32)

validateRateAndBurst(rate, burst) ==
    CASE U64IsZero(burst) /\ ~U64IsZero(rate) -> ErrBurstNotSet
      [] U64IsZero(rate) /\ ~U64IsZero(burst) -> ErrRateNotSet
      [] BurstOutOfRange(burst) -> ErrBurstTooBig
      [] OTHER -> Ok

(***************************************************************************)
(* The kernel's link tables.  A link is a record; a table is the set of    *)
(* the links of one namespace (names and indexes are unique within it).    *)
(***************************************************************************)
ContNS == "cont"
HostNS == "host"
Namespaces == {ContNS, HostNS}

NoLink ==
    [name |-> "", kind |-> "none", index |-> 0, parentIndex |-> 0,
     stats |-> {}, mtu |-> 0, mac |-> "", addrs |-> {}, qdiscs |-> <<>>]

LinkNames(tbl) == {l.name : l \in tbl}

\* netlinksafe.LinkByName in the namespace whose table is tbl
LinkByName(tbl, name) ==
    IF name \in LinkNames(tbl) THEN CHOOSE l \in tbl : l.name = name ELSE NoLink

\* netlink.LinkByIndex
LinkByIndex(tbl, idx) ==
    IF \E l \in tbl : l.index = idx THEN CHOOSE l \in tbl : l.index = idx ELSE NoLink

\* The index the kernel gives the next link of a table: one no link of the
\* table has (here the least).
FreshIndex(tbl) ==
    CHOOSE i \in 1..(Cardinality(tbl) + 1) :
        /\ i \notin {l.index : l \in tbl}
        /\ \A j \in 1..(i - 1) : j \in {l.index : l \in tbl}

\* The other namespace of the two.
OtherNS(c) == IF c = ContNS THEN HostNS ELSE ContNS

\* netlink.LinkDel of the link called name in namespace c: the kernel deletes
\* a veth together with its peer, whatever the peer is called by then.
PairDel(L, c, name) ==
    LET l == LinkByName(L[c], name) IN
    IF l = NoLink THEN L
    ELSE [L EXCEPT ![c] = @ \ {l},
                   ![OtherNS(c)] =
                       {x \in @ : ~(l.kind = "veth" /\ x.kind = "veth"
                                     /\ x.index = l.parentIndex
                                     /\ x.parentIndex = l.index)}]

\* netlink.LinkDel(link) of a link object in namespace c: the request names
\* the index the object holds, and the kernel deletes the link that has it by
\* now (a veth together with its peer); with no such link nothing is deleted.
LinkDelByIndex(L, c, idx) ==
    LET l == LinkByIndex(L[c], idx) IN
    IF l = NoLink THEN L ELSE PairDel(L, c, l.name)

\* The two ends netlink.LinkAdd(&netlink.Veth{...}) creates: the named end in
\* the calling (container) namespace, the peer in PeerNamespace (the host).
VethEnd(name, idx, peerIdx, mtu, mac) ==
    [name |-> name, kind |-> "veth", index |-> idx, parentIndex |-> peerIdx,
     stats |-> {}, mtu |-> mtu, mac |-> mac, addrs |-> {}, qdiscs |-> <<>>]

\* The kernel rejects a veth creation as a duplicate when the container-side
\* name is taken in the calling namespace or the peer name is taken in the
\* peer's namespace.
VethAddIsDuplicate(L, name, peer) ==
    name \in LinkNames(L[ContNS]) \/ peer \in LinkNames(L[HostNS])

VethAdd(L, name, peer, mtu, mac) ==
    LET ci == FreshIndex(L[ContNS])
        hi == FreshIndex(L[HostNS])
    IN  [L EXCEPT ![ContNS] = @ \cup {VethEnd(name, ci, hi, mtu, mac)},
                  ![HostNS] = @ \cup {VethEnd(peer, hi, ci, mtu, "")}]

(***************************************************************************)
(* pkg/ip/link_linux.go                                                    *)
(***************************************************************************)
ErrLinkNotFound == "link not found"
ErrLookup == "failed to lookup"
ErrAddrList == "failed to get IP addresses"
ErrDelete == "failed to delete"
ErrCouldNotLookUp == "could not look up"
ErrNotVeth == "was not a veth interface"
ErrEthtoolInit == "failed to initialize ethtool"
ErrEthtoolStats == "failed to request ethtool stats"
ErrNoPeerStat == "failed to find 'peer_ifindex' in ethtool stats"
ErrInvalidPeerStat == "invalid 'peer_ifindex'"

\* The largest peer index the statistics fallback accepts.
MaxStatPeerIndex == 32767

HasStat(stats, key) == \E p \in stats : p[1] = key
StatOf(stats, key) == (CHOOSE p \in stats : p[1] = key)[2]

\* A variant of the range check that lets the counter value 0 through.
StatAboveMaxOnly(n) == n > MaxStatPeerIndex

\* The fallback's range check on the counter n.
StatOutOfRange(n) == n > MaxStatPeerIndex \/ n = 0

\* GetVethPeerIfindex(ifName), run in the namespace whose table is tbl.
\* eth: whether the ethtool handle opens and whether its query succeeds.
GetVethPeerIfindex(tbl, ifName, eth) ==
    LET link == LinkByName(tbl, ifName)
        fail(e) == [link |-> NoLink, peerIndex |-> -1, err |-> e]
    IN  IF link = NoLink THEN fail(ErrCouldNotLookUp)
        ELSE IF link.kind # "veth" THEN fail(ErrNotVeth)
        ELSE IF link.parentIndex > 0
             THEN [link |-> link, peerIndex |-> link.parentIndex, err |-> Ok]
        ELSE IF ~eth.init THEN fail(ErrEthtoolInit)
        ELSE IF ~eth.stats THEN fail(ErrEthtoolStats)
        ELSE IF ~HasStat(link.stats, "peer_ifindex") THEN fail(ErrNoPeerStat)
        ELSE IF StatOutOfRange(StatOf(link.stats, "peer_ifindex"))
             THEN fail(ErrInvalidPeerStat)
        ELSE [link |-> link, peerIndex |-> StatOf(link.stats, "peer_ifindex"),
              err |-> Ok]

\* addr.IP.IsGlobalUnicast() over the addresses of a link
GlobalUnicast(addrs) == {a \in addrs : a.global}

(***************************************************************************)
(* DelLinkByName and DelLinkByNameAddr, one kernel call at a time.  A call *)
(* d is: the function (fn), ifName, the kernel call that fails for an      *)
(* outside reason (fault), its position (pc), the index of the link object *)
(* the lookup returned (iface), the addresses listed (addrs), and what it  *)
(* returns (out, err).  It runs in namespace c of the tables L.            *)
(***************************************************************************)
DlCall(fn, ifName, fault) ==
    [fn |-> fn, ifName |-> ifName, fault |-> fault, pc |-> "lookup",
     iface |-> 0, addrs |-> {}, out |-> {}, err |-> ""]

DlNone == [DlCall("", "", "none") EXCEPT !.pc = "none"]

DlDone(d, e) == [d EXCEPT !.pc = "done", !.err = e]

\* A variant of the lookup's error that wraps the absence of the link like
\* any other failure.
LookupFailureAlwaysWrapped(notFound) == ErrLookup

\* The error of a failed netlinksafe.LinkByName: the sentinel for
\* netlink.LinkNotFoundError, a wrapped error otherwise.
LookupFailure(notFound) == IF notFound THEN ErrLinkNotFound ELSE ErrLookup

\* iface, err := netlinksafe.LinkByName(ifName)
DlLookupStep(L, c, d) ==
    LET iface == LinkByName(L[c], d.ifName) IN
    IF d.fault = "lookup" \/ iface = NoLink
    THEN [d |-> DlDone(d, LookupFailure(d.fault # "lookup")), L |-> L]
    ELSE [d |-> [d EXCEPT !.iface = iface.index,
                          !.pc = IF d.fn = "DelLinkByNameAddr" THEN "addrlist"
                                 ELSE "del"],
          L |-> L]

\* addrs, err := netlinksafe.AddrList(iface, netlink.FAMILY_ALL): the
\* addresses the kernel lists for the object's index (none when no link has
\* it any more).
DlAddrListStep(L, c, d) ==
    IF d.fault = "addrlist" THEN [d |-> DlDone(d, ErrAddrList), L |-> L]
    ELSE [d |-> [d EXCEPT !.addrs = LinkByIndex(L[c], d.iface).addrs, !.pc = "del"],
          L |-> L]

\* A variant of the last step that reports success without the call of
\* netlink.LinkDel.
DlDeleteStepNoDelete(L, c, d) ==
    [d |-> [DlDone(d, Ok) EXCEPT !.out = GlobalUnicast(d.addrs)], L |-> L]

\* netlink.LinkDel(iface), which the kernel refuses when no link has the
\* object's index any more, and the selection of the addresses to return.
DlDeleteStep(L, c, d) ==
    IF d.fault = "del" \/ LinkByIndex(L[c], d.iface) = NoLink
    THEN [d |-> DlDone(d, ErrDelete), L |-> L]
    ELSE [d |-> [DlDone(d, Ok) EXCEPT !.out = GlobalUnicast(d.addrs)],
          L |-> LinkDelByIndex(L, c, d.iface)]

\* The next kernel call of the call d.
DelLinkStep(L, c, d) ==
    CASE d.pc = "lookup" -> DlLookupStep(L, c, d)
      [] d.pc = "addrlist" -> DlAddrListStep(L, c, d)
      [] d.pc = "del" -> DlDeleteStep(L, c, d)

(***************************************************************************)
(* RenameLink, one kernel call at a time.  A call n is: curName, newName,  *)
(* the namespace it runs in (ns), its position (pc), the index of the link *)
(* object the lookup returned (link), and the error it returns (err).      *)
(***************************************************************************)
ErrNoSuchLink == "Link not found"
ErrNoSuchDevice == "no such device"
ErrFileExists == "file exists"

RnNone == [curName |-> "", newName |-> "", ns |-> "", pc |-> "none", link |-> 0, err |-> ""]

\* link, err := netlinksafe.LinkByName(curName)
RnLookupStep(L, n) ==
    LET link == LinkByName(L[n.ns], n.curName) IN
    IF link = NoLink THEN [n |-> [n EXCEPT !.pc = "done", !.err = ErrNoSuchLink], L |-> L]
    ELSE [n |-> [n EXCEPT !.pc = "setname", !.link = link.index], L |-> L]

\* err = netlink.LinkSetName(link, newName): the kernel renames the link that
\* has the object's index, unless no link has it or the name is another's.
RnSetNameStep(L, n) ==
    LET link == LinkByIndex(L[n.ns], n.link)
        done(e) == [n EXCEPT !.pc = "done", !.err = e]
    IN  IF link = NoLink THEN [n |-> done(ErrNoSuchDevice), L |-> L]
        ELSE IF n.newName \in LinkNames(L[n.ns] \ {link})
        THEN [n |-> done(ErrFileExists), L |-> L]
        ELSE [n |-> done(Ok),
              L |-> [L EXCEPT ![n.ns] = (@ \ {link}) \cup {[link EXCEPT !.name = n.newName]}]]

\* The next kernel call of the call n.
RenameLink(L, n) ==
    IF n.pc = "lookup" THEN RnLookupStep(L, n) ELSE RnSetNameStep(L, n)

(***************************************************************************)
(* makeVeth, one kernel call at a time.  mv[p] is invocation p: its        *)
(* arguments (name, hint = vethPeerName, mtu, mac), the fault the kernel   *)
(* injects, its position pc, the loop counter i, and what it returns       *)
(* (peerName, veth, err).  attempts counts the calls of netlink.LinkAdd,   *)
(* rejected those the kernel refused as duplicates; made is the index the  *)
(* last successful one left in the veth object.                            *)
(***************************************************************************)
ErrRandom == "failed to generate random veth name"
ErrPeerExists == "container veth name peer provided already exists"
ErrMakeVeth == "failed to make veth pair"
ErrNoUniqueName == "failed to find a unique veth name"

\* The number of times makeVeth tries.
MaxVethAttempts == 10

\* The number of distinct values the 4 bytes of entropy take in the model.
NumEntropy == 2

VethProcs == {1, 2}

\* fmt.Sprintf("veth%x", entropy)
VethNameOf == <<"veth00000001", "veth00000002", "veth00000003", "veth00000004">>

RandomVethName(e) == VethNameOf[e]

GenNames == {RandomVethName(e) : e \in 1..NumEntropy}

\* net.ParseMAC succeeds
ValidMAC(mac) == mac = "0a:00:00:00:00:01"

VethFaults == {"none", "rand", "add", "refetch", "refetchdel"}

\* peerExists(name), run in the calling namespace: makeVeth is called from
\* within the container's namespace.
peerExists(L, name) == LinkByName(L[ContNS], name) # NoLink

\* The decision of the os.IsExist case: try again with another name.
RetryOnExist(L, peerName, vethPeerName) ==
    peerExists(L, peerName) /\ vethPeerName = ""

MvDone(r, e) == [r EXCEPT !.pc = "done", !.err = e]

\* for i := 0; i < 10; i++ { peerName = vethPeerName or RandomVethName() ...
MvLoop(p) ==
    LET r == mv[p] IN
    /\ r.pc = "loop"
    /\ IF r.i < MaxVethAttempts
       THEN IF r.hint # ""
            THEN mv' = [mv EXCEPT ![p] = [r EXCEPT !.peerName = r.hint, !.pc = "add"]]
            ELSE IF r.fault = "rand"
            THEN mv' = [mv EXCEPT ![p] = MvDone([r EXCEPT !.peerName = ""], ErrRandom)]
            ELSE \E e \in 1..NumEntropy :
                    mv' = [mv EXCEPT ![p] = [r EXCEPT !.peerName = RandomVethName(e),
                                                      !.gens = @ + 1,
                                                      !.pc = "add"]]
       ELSE mv' = [mv EXCEPT ![p] = MvDone(r, ErrNoUniqueName)]
    /\ UNCHANGED <<links, inv, call>>

\* makeVethPair up to netlink.LinkAdd, and makeVeth's switch on its error
MvAdd(p) ==
    LET r == mv[p] IN
    /\ r.pc = "add"
    /\ IF r.mac # "" /\ ~ValidMAC(r.mac)
       THEN /\ mv' = [mv EXCEPT ![p] = MvDone(r, ErrMakeVeth)]
            /\ UNCHANGED links
       ELSE IF r.fault = "add"
       THEN /\ mv' = [mv EXCEPT ![p] = MvDone([r EXCEPT !.attempts = @ + 1], ErrMakeVeth)]
            /\ UNCHANGED links
       ELSE IF VethAddIsDuplicate(links, r.name, r.peerName)
       THEN /\ mv' = [mv EXCEPT ![p] = [r EXCEPT !.attempts = @ + 1,
                                                 !.rejected = @ + 1,
                                                 !.pc = "exists"]]
            /\ UNCHANGED links
       ELSE /\ links' = VethAdd(links, r.name, r.peerName, r.mtu, r.mac)
            /\ mv' = [mv EXCEPT ![p] = [r EXCEPT !.attempts = @ + 1,
                                                 !.made = FreshIndex(links[ContNS]),
                                                 !.pc = "refetch"]]
    /\ UNCHANGED <<inv, call>>

\* makeVethPair: re-fetch the container link by name
MvRefetch(p) ==
    LET r == mv[p]
        veth2 == LinkByName(links[ContNS], r.name)
    IN
    /\ r.pc = "refetch"
    /\ IF veth2 # NoLink /\ r.fault \notin {"refetch", "refetchdel"}
       THEN mv' = [mv EXCEPT ![p] = [MvDone(r, Ok) EXCEPT !.veth = veth2.index]]
       ELSE mv' = [mv EXCEPT ![p] = [r EXCEPT !.pc = "cleanup"]]
    /\ UNCHANGED <<links, inv, call>>

\* A variant of the clean-up after which makeVeth takes the failed re-fetch
\* for a collision and goes round the loop again.
MvCleanupThenRetry(p) ==
    LET r == mv[p] IN
    /\ r.pc = "cleanup"
    /\ IF r.fault = "refetchdel"
       THEN UNCHANGED links
       ELSE links' = LinkDelByIndex(links, ContNS, r.made)
    /\ mv' = [mv EXCEPT ![p] = [r EXCEPT !.cleanups = @ + 1, !.i = @ + 1, !.pc = "loop",
                                         !.fault = "none"]]
    /\ UNCHANGED <<inv, call>>

\* makeVethPair: netlink.LinkDel(veth), its outcome ignored, on the object
\* netlink.LinkAdd has left the index of the link it created in: the link
\* that has this index by now is deleted, and with it its peer.  makeVeth
\* then takes its default case.
MvCleanup(p) ==
    LET r == mv[p] IN
    /\ r.pc = "cleanup"
    /\ IF r.fault = "refetchdel"
       THEN UNCHANGED links
       ELSE links' = LinkDelByIndex(links, ContNS, r.made)
    /\ mv' = [mv EXCEPT ![p] = MvDone([r EXCEPT !.cleanups = @ + 1], ErrMakeVeth)]
    /\ UNCHANGED <<inv, call>>

\* case os.IsExist(err)
MvExists(p) ==
    LET r == mv[p] IN
    /\ r.pc = "exists"
    /\ IF RetryOnExist(links, r.peerName, r.hint)
       THEN mv' = [mv EXCEPT ![p] = [r EXCEPT !.i = @ + 1, !.pc = "loop"]]
       ELSE mv' = [mv EXCEPT ![p] = MvDone(r, ErrPeerExists)]
    /\ UNCHANGED <<links, inv, call>>

(***************************************************************************)
(* plugins/meta/bandwidth: configuration                                   *)
(***************************************************************************)
maxIfbDeviceLength == 15
ifbDevicePrefix == "bwp"

ErrParseConf == "failed to parse network configuration"
ErrPrevParse == "could not parse prevResult"
ErrNotChainedAdd == "must be called as chained plugin"
ErrNotChainedCheck == "must be called as a chained plugin"
ErrNetns == "failed to open netns"
ErrNoInterfaces == "no interfaces provided"
ErrNoVethPeer == "container interface has no veth peer"
ErrPeerNotInHost == "veth peer is not in host ns"
ErrNoHostIface == "no veth peer of container interface found in host ns"
ErrQdiscList == "qdisc list: operation not permitted"
ErrNoQdisc == "Failed to find qdisc"
ErrRate == "Rate doesn't match"
ErrLimit == "Limit doesn't match"
ErrBuffer == "Buffer doesn't match"
ErrGetIfb == "get ifb device"
\* The invocation ends in a runtime panic instead of returning.
Panic == "panic: nil pointer dereference"

\* A *BandwidthEntry: present = FALSE is the nil pointer.
NilEntry ==
    [present |-> FALSE, IngressRate |-> <<0, 0, 0, 0>>, IngressBurst |-> <<0, 0, 0, 0>>,
     EgressRate |-> <<0, 0, 0, 0>>, EgressBurst |-> <<0, 0, 0, 0>>]

Entry(ir, ib, er, eb) ==
    [present |-> TRUE, IngressRate |-> ir, IngressBurst |-> ib,
     EgressRate |-> er, EgressBurst |-> eb]

\* A variant of isZero that looks at the ingress fields only.
isZeroIngressOnly(bw) ==
    U64IsZero(bw.IngressBurst) /\ U64IsZero(bw.IngressRate)

isZero(bw) ==
    /\ U64IsZero(bw.IngressBurst) /\ U64IsZero(bw.IngressRate)
    /\ U64IsZero(bw.EgressBurst) /\ U64IsZero(bw.EgressRate)

\* A variant of getBandwidth that prefers the runtime entry.
getBandwidthRuntimeFirst(conf) ==
    IF conf.runtime.present THEN conf.runtime ELSE conf.top

\* conf.top is the embedded *BandwidthEntry, conf.runtime is
\* conf.RuntimeConfig.Bandwidth.
getBandwidth(conf) ==
    IF ~conf.top.present /\ conf.runtime.present THEN conf.runtime ELSE conf.top

\* conf.prev is the previous result: kind "none" (no prevResult), "bad" (one
\* that does not parse) or "ok", with its interface list.
NoResult == [kind |-> "none", Interfaces |-> <<>>]

parseConfig(conf) ==
    LET bandwidth == getBandwidth(conf)
        ingress == validateRateAndBurst(bandwidth.IngressRate, bandwidth.IngressBurst)
        egress == validateRateAndBurst(bandwidth.EgressRate, bandwidth.EgressBurst)
    IN  IF ~conf.parse THEN ErrParseConf
        ELSE IF bandwidth.present /\ ingress # Ok THEN ingress
        ELSE IF bandwidth.present /\ egress # Ok THEN egress
        ELSE IF conf.prev.kind = "bad" THEN ErrPrevParse
        ELSE Ok

\* utils.MustFormatHashWithPrefix: the prefix and a digest of toHash, cut to
\* maxLen characters.  The digest is taken to be free of collisions: it is
\* the hashed text itself.
FormatHashWithPrefix(maxLen, prefix, toHash) == prefix \o toHash

getIfbDeviceName(networkName, containerID) ==
    FormatHashWithPrefix(maxIfbDeviceLength, ifbDevicePrefix, networkName \o containerID)

\* ns.GetNS(args.Netns) succeeds
NetnsPath == "/var/run/netns/cont"
ValidNetns(path) == path = NetnsPath

\* The ethtool fallback's environment in a plugin invocation.
EthUp == [init |-> TRUE, stats |-> TRUE]

\* A variant of the search that takes the first entry of that name, whatever
\* its sandbox.
RECURSIVE FindIfaceAnySandbox(_, _, _)
FindIfaceAnySandbox(interfaces, name, k) ==
    IF k > Len(interfaces) THEN 0
    ELSE IF interfaces[k].Name = name THEN k
    ELSE FindIfaceAnySandbox(interfaces, name, k + 1)

\* The first host-side entry (no sandbox) of the list with this name, 0 if none.
RECURSIVE FindIface(_, _, _)
FindIface(interfaces, name, k) ==
    IF k > Len(interfaces) THEN 0
    ELSE IF interfaces[k].Sandbox = "" /\ interfaces[k].Name = name THEN k
    ELSE FindIface(interfaces, name, k + 1)

(***************************************************************************)
(* plugins/meta/bandwidth: the shaping parameters and the kernel's         *)
(* queueing disciplines (ifb_creator.go).  A discipline is a record; a     *)
(* link's disciplines are listed root first.                               *)
(***************************************************************************)
latencyInMillis == 25
TimeUnitsPerSec == 1000000

\* uint32(x) of a uint64, as a number
Uint32(u) == U64ToNat(U64Lo32(u))

\* time * netlink.TickInUsec(), with 15.625 ticks in a microsecond
time2Tick(time) == (time * 125) \div 8

buffer(rate, burst) ==
    IF U64IsZero(rate) THEN 0
    ELSE time2Tick((burst * TimeUnitsPerSec) \div U64ToNat(rate))

limit(rate, latency, burstBytes) ==
    (U64ToNat(rate) * latency) \div TimeUnitsPerSec + burstBytes

latencyInUsec(millis) == (TimeUnitsPerSec * millis) \div 1000

Tbf(rate, buf, lim) == [kind |-> "tbf", Rate |-> rate, Buffer |-> buf, Limit |-> lim]
PfifoFast == [kind |-> "pfifo_fast", Rate |-> <<0, 0, 0, 0>>, Buffer |-> 0, Limit |-> 0]
IngressQdisc == [kind |-> "ingress", Rate |-> <<0, 0, 0, 0>>, Buffer |-> 0, Limit |-> 0]

SetQdiscs(tbl, name, qs) ==
    {IF l.name = name THEN [l EXCEPT !.qdiscs = qs] ELSE l : l \in tbl}

IsRootShaper(q) == q.kind \notin {"pfifo_fast", "ingress"}

\* netlink.QdiscAdd of a root discipline: refused when the link has one that
\* is not the kernel's default, which it otherwise replaces.
QdiscAddRoot(tbl, name, q) ==
    LET qs == LinkByName(tbl, name).qdiscs IN
    IF \E k \in 1..Len(qs) : IsRootShaper(qs[k])
    THEN [err |-> "create qdisc: file exists", tbl |-> tbl]
    ELSE IF U64IsZero(q.Rate)
    THEN [err |-> "create qdisc: invalid argument", tbl |-> tbl]
    ELSE [err |-> Ok,
          tbl |-> SetQdiscs(tbl, name, <<q>> \o SelectSeq(qs, LAMBDA x : x.kind = "ingress"))]

\* netlink.QdiscAdd of the ingress discipline
QdiscAddIngress(tbl, name) ==
    LET qs == LinkByName(tbl, name).qdiscs IN
    IF \E k \in 1..Len(qs) : qs[k].kind = "ingress"
    THEN [err |-> "create ingress qdisc: file exists", tbl |-> tbl]
    ELSE [err |-> Ok, tbl |-> SetQdiscs(tbl, name, Append(qs, IngressQdisc))]

\* createTBF: the discipline Add attaches for a rate and burst in bits
createTBF(tbl, rateInBits, burstInBits, name) ==
    LET rateInBytes == U64Div8(rateInBits)
        burstInBytes == U64Div8(burstInBits)
        bufferInBytes == buffer(rateInBytes, Uint32(burstInBytes))
        latency == latencyInUsec(latencyInMillis)
        limitInBytes == limit(rateInBytes, latency, Uint32(burstInBytes))
    IN  QdiscAddRoot(tbl, name, Tbf(rateInBytes, bufferInBytes, limitInBytes))

CreateIngressQdisc(tbl, rateInBits, burstInBits, hostDeviceName) ==
    IF LinkByName(tbl, hostDeviceName) = NoLink
    THEN [err |-> "get host device", tbl |-> tbl]
    ELSE createTBF(tbl, rateInBits, burstInBits, hostDeviceName)

IfbMac(name) == "mac:" \o name

CreateIfb(tbl, ifbDeviceName, mtu) ==
    IF ifbDeviceName \in LinkNames(tbl)
    THEN [err |-> "adding link: file exists", tbl |-> tbl]
    ELSE [err |-> Ok,
          tbl |-> tbl \cup {[name |-> ifbDeviceName, kind |-> "ifb",
                             index |-> FreshIndex(tbl), parentIndex |-> 0,
                             stats |-> {}, mtu |-> mtu, mac |-> IfbMac(ifbDeviceName),
                             addrs |-> {}, qdiscs |-> <<PfifoFast>>]}]

\* The ingress discipline and the redirect filter on the host device, then the
\* token bucket on the ifb device.
CreateEgressQdisc(tbl, rateInBits, burstInBits, hostDeviceName, ifbDeviceName) ==
    LET ing == QdiscAddIngress(tbl, hostDeviceName) IN
    IF LinkByName(tbl, ifbDeviceName) = NoLink THEN [err |-> ErrGetIfb, tbl |-> tbl]
    ELSE IF LinkByName(tbl, hostDeviceName) = NoLink
    THEN [err |-> "get host device", tbl |-> tbl]
    ELSE IF ing.err # Ok THEN ing
    ELSE createTBF(ing.tbl, rateInBits, burstInBits, ifbDeviceName)

\* A variant of TeardownIfb that returns the error as it is.
TeardownIfbSurfaced(err) == err

\* TeardownIfb, after ip.DelLinkByNameAddr(deviceName) has returned err: the
\* absence of the device is not an error.
TeardownIfb(err) == IF err = ErrLinkNotFound THEN Ok ELSE err

(***************************************************************************)
(* plugins/meta/bandwidth: what cmdAdd and cmdCheck compute                *)
(***************************************************************************)
\* rate > 0 && burst > 0
Configured(rate, burst) == ~U64IsZero(rate) /\ ~U64IsZero(burst)

\* A variant of the expectation that takes the rate in bits per second as
\* the discipline's rate, without the conversion to bytes.
ExpectedTbfRateInBits(rate, burst) ==
    LET rateInBytes == rate
        burstInBytes == U64Div8(burst)
        bufferInBytes == buffer(rateInBytes, Uint32(burstInBytes))
        latency == latencyInUsec(latencyInMillis)
        limitInBytes == limit(rateInBytes, latency, Uint32(burstInBytes))
    IN  Tbf(rateInBytes, bufferInBytes, limitInBytes)

\* The discipline cmdCheck expects for a rate and burst in bits.
ExpectedTbf(rate, burst) ==
    LET rateInBytes == U64Div8(rate)
        burstInBytes == U64Div8(burst)
        bufferInBytes == buffer(rateInBytes, Uint32(burstInBytes))
        latency == latencyInUsec(latencyInMillis)
        limitInBytes == limit(rateInBytes, latency, Uint32(burstInBytes))
    IN  Tbf(rateInBytes, bufferInBytes, limitInBytes)

\* SafeQdiscList(link) on the link object whose index is link, in the
\* namespace whose table is tbl: netlinksafe.QdiscList lists the disciplines
\* of the link that has this index (none when no link has it any more), and
\* the pfifo_fast ones are left out.  failed: the kernel refuses the listing.
SafeQdiscList(tbl, link, failed) ==
    IF failed THEN [qdiscs |-> <<>>, err |-> ErrQdiscList]
    ELSE [qdiscs |-> SelectSeq(LinkByIndex(tbl, link).qdiscs,
                               LAMBDA q : q.kind # "pfifo_fast"),
          err |-> Ok]

\* for _, qdisc := range qdiscs { ... }: the loop ends at the first
\* discipline that is not a token bucket, and returns at the first mismatch.
RECURSIVE VerifyQdiscs(_, _)
VerifyQdiscs(qdiscs, exp) ==
    IF qdiscs = <<>> THEN Ok
    ELSE LET tbf == Head(qdiscs) IN
         IF tbf.kind # "tbf" THEN Ok
         ELSE IF tbf.Rate # exp.Rate THEN ErrRate
         ELSE IF tbf.Limit # exp.Limit THEN ErrLimit
         ELSE IF tbf.Buffer # exp.Buffer THEN ErrBuffer
         ELSE VerifyQdiscs(Tail(qdiscs), exp)

\* The verification of one direction against a link object.
CheckDirection(tbl, link, rate, burst, failed) ==
    LET listed == SafeQdiscList(tbl, link, failed) IN
    IF listed.err # Ok THEN listed.err
    ELSE IF Len(listed.qdiscs) = 0 THEN ErrNoQdisc
    ELSE VerifyQdiscs(listed.qdiscs, ExpectedTbf(rate, burst))

\* A variant of the appended entry that leaves the hardware address out.
IfbInterfaceNoMac(ifbDeviceName, ifbDevice) ==
    [Name |-> ifbDeviceName, Mac |-> "", Sandbox |-> ""]

\* &current.Interface{Name: ifbDeviceName, Mac: ifbDevice.Attrs().HardwareAddr.String()}
IfbInterface(ifbDeviceName, ifbDevice) ==
    [Name |-> ifbDeviceName, Mac |-> ifbDevice.mac, Sandbox |-> ""]

\* types.PrintResult(result, version) of the CNI library: it converts the
\* result with result.GetAsVersion(version) and prints the conversion.  The
\* method call on a nil Result (no prevResult was parsed) is a nil dereference.
PrintResult(result) == IF result.kind = "none" THEN Panic ELSE Ok

\* getMTU(deviceName) in the namespace whose table is tbl.  failed: the
\* lookup fails for an outside reason.
getMTU(tbl, deviceName, failed) ==
    LET link == LinkByName(tbl, deviceName) IN
    IF failed \/ link = NoLink THEN [mtu |-> -1, err |-> ErrNoSuchLink]
    ELSE [mtu |-> link.mtu, err |-> Ok]

\* getHostInterface up to its first kernel call, ip.GetVethPeerIfindex, which
\* netns.Do runs in the container's namespace.
getHostInterface(L, interfaces, containerIfName) ==
    LET peer == GetVethPeerIfindex(L[ContNS], containerIfName, EthUp) IN
    IF Len(interfaces) = 0 THEN [peerIndex |-> 0, err |-> ErrNoInterfaces]
    ELSE IF peer.peerIndex <= 0 THEN [peerIndex |-> peer.peerIndex, err |-> ErrNoVethPeer]
    ELSE [peerIndex |-> peer.peerIndex, err |-> Ok]

\* getHostInterface from netlink.LinkByIndex(peerIndex), in the caller's (the
\* host's) namespace, to its return.
getHostInterfaceByIndex(L, interfaces, peerIndex) ==
    LET link == LinkByIndex(L[HostNS], peerIndex)
        k == FindIface(interfaces, link.name, 1)
    IN  IF link = NoLink THEN [Name |-> "", at |-> 0, err |-> ErrPeerNotInHost]
        ELSE IF k = 0 THEN [Name |-> "", at |-> 0, err |-> ErrNoHostIface]
        ELSE [Name |-> interfaces[k].Name, at |-> k, err |-> Ok]

(***************************************************************************)
(* The requests the plugin is driven with.                                 *)
(***************************************************************************)
Zero64 == <<0, 0, 0, 0>>
RateA == U64FromNat(320)
BurstA == U64FromNat(800)
RateB == U64FromNat(800)
BurstB == U64FromNat(80)
\* 2^35 bits: a burst of 4 GiB
BurstHuge == <<0, 8, 0, 0>>

EntryZero == Entry(Zero64, Zero64, Zero64, Zero64)
EntryBoth == Entry(RateA, BurstA, RateB, BurstB)
EntrySwap == Entry(RateB, BurstB, RateA, BurstA)
EntryIngress == Entry(RateA, BurstA, Zero64, Zero64)
EntryEgress == Entry(Zero64, Zero64, RateB, BurstB)
EntryNoBurst == Entry(RateA, Zero64, Zero64, Zero64)
EntryNoRate == Entry(Zero64, Zero64, Zero64, BurstB)
EntryHuge == Entry(RateA, BurstHuge, Zero64, Zero64)

\* <<top-level entry, runtime-config entry>>
BandwidthPairs ==
    { <<NilEntry, NilEntry>>, <<NilEntry, EntryIngress>>, <<EntryZero, EntryIngress>>,
      <<EntryZero, NilEntry>>, <<EntryBoth, NilEntry>>, <<EntrySwap, NilEntry>>,
      <<EntryIngress, NilEntry>>, <<EntryEgress, NilEntry>>, <<EntryNoBurst, NilEntry>>,
      <<EntryIngress, EntryNoRate>>, <<NilEntry, EntryNoRate>>, <<EntryHuge, NilEntry>> }

HostIfName == "veth123"
ContIfName == "eth0"
NetName == "net1"
ContainerIDs == {"cid1", "cid2"}
\* Another network and another container: conf.Name and args.ContainerID
\* are free text.
OtherNetName == "net1c"
OtherContainerID == "id1"

PrevGood ==
    [kind |-> "ok",
     Interfaces |-> << [Name |-> HostIfName, Mac |-> "", Sandbox |-> ""],
                       [Name |-> ContIfName, Mac |-> "", Sandbox |-> NetnsPath] >>]
PrevBad == [kind |-> "bad", Interfaces |-> <<>>]
PrevResults == {NoResult, PrevBad, PrevGood}

MkConf(pair, prev) ==
    [parse |-> TRUE, Name |-> NetName, top |-> pair[1], runtime |-> pair[2], prev |-> prev]

\* A document that is not a configuration.
Malformed ==
    [parse |-> FALSE, Name |-> "", top |-> NilEntry, runtime |-> NilEntry, prev |-> NoResult]

MkReq(conf, cid, ifName, netns) ==
    [conf |-> conf, ContainerID |-> cid, IfName |-> ifName, Netns |-> netns]

NoReq == MkReq(Malformed, "", "", "")

BaseRequests ==
    {MkReq(MkConf(pair, prev), "cid1", ContIfName, NetnsPath) :
        pair \in BandwidthPairs, prev \in PrevResults}
    \cup {MkReq(Malformed, "cid1", ContIfName, NetnsPath)}
    \cup {MkReq(MkConf(<<e, NilEntry>>, PrevGood), "cid2", ContIfName, NetnsPath) :
            e \in {EntryBoth, EntryEgress}}
    \cup {MkReq([MkConf(<<EntryEgress, NilEntry>>, PrevGood) EXCEPT !.Name = OtherNetName],
                OtherContainerID, ContIfName, NetnsPath)}
    \cup {MkReq(MkConf(<<EntryBoth, NilEntry>>, PrevGood), "cid1", "eth9", NetnsPath),
          MkReq(MkConf(<<EntryBoth, NilEntry>>, PrevGood), "cid1", ContIfName, "/gone")}

AddFaults == {"getmtu", "createifb", "ifblookup", "egressqdisc"}
DelFaults == {"lookup", "addrlist", "del"}

AddInputs ==
    {[req |-> r, fault |-> "none"] : r \in BaseRequests}
    \cup {[req |-> MkReq(MkConf(<<EntryBoth, NilEntry>>, PrevGood), "cid1", ContIfName,
                         NetnsPath),
           fault |-> f] : f \in AddFaults}

CheckFaults == {"ingresslist", "egresslist"}

DelInputs ==
    {[req |-> MkReq(c, cid, ContIfName, NetnsPath), fault |-> f] :
        c \in {MkConf(<<EntryBoth, NilEntry>>, PrevGood),
               MkConf(<<NilEntry, NilEntry>>, NoResult),
               MkConf(<<EntryNoBurst, NilEntry>>, PrevGood),
               MkConf(<<NilEntry, EntryNoRate>>, PrevGood),
               MkConf(<<EntryBoth, NilEntry>>, PrevBad),
               Malformed},
        cid \in ContainerIDs,
        f \in {"none"} \cup DelFaults}
    \cup {[req |-> MkReq([MkConf(<<EntryEgress, NilEntry>>, PrevGood)
                            EXCEPT !.Name = OtherNetName],
                         OtherContainerID, ContIfName, NetnsPath),
           fault |-> "none"]}

\* The invocations that run while another is at work: an Add and a Check of
\* both directions for container cid1, the Del of its device, and the Del of
\* another network's container.
OverlapInputs ==
    {[op |-> op, req |-> MkReq(MkConf(<<EntryBoth, NilEntry>>, PrevGood), "cid1",
                               ContIfName, NetnsPath),
      fault |-> "none"] : op \in {"add", "check", "del"}}
    \cup {[op |-> "del",
           req |-> MkReq([MkConf(<<EntryEgress, NilEntry>>, PrevGood)
                            EXCEPT !.Name = OtherNetName],
                         OtherContainerID, ContIfName, NetnsPath),
           fault |-> "none"]}

\* The number of invocations that overlap with one invocation.
MaxOthers == 1

NoLinks == [c \in Namespaces |-> {}]

(***************************************************************************)
(* plugins/meta/bandwidth: cmdAdd, cmdCheck and cmdDel, one kernel call at *)
(* a time.  An invocation r is: the command (op), its request, the kernel  *)
(* call that fails for an outside reason (fault), its position (pc), what  *)
(* it returns (ret) and prints (out), and its local variables: the peer    *)
(* index resolved (peerIndex), hostInterface (host, and its place in the   *)
(* list, at), the index of the link object in hand (link), mtu, the        *)
(* entries appended to the result (added), and the call of                 *)
(* DelLinkByNameAddr (dl).  For the statement of the properties it also    *)
(* carries the tables as they were when it began (before), whether no      *)
(* other invocation took a step since (alone), how many began meanwhile    *)
(* (others), and what the invocation before it was (pred).                 *)
(*                                                                         *)
(* CreateIngressQdisc, CreateIfb, CreateEgressQdisc (ifb_creator.go) are   *)
(* each one step.                                                          *)
(***************************************************************************)
InvProcs == {1, 2}

\* Some direction of the effective entry is configured.
Shapes(conf) ==
    LET bw == getBandwidth(conf) IN
    /\ bw.present
    /\ \/ Configured(bw.IngressRate, bw.IngressBurst)
       \/ Configured(bw.EgressRate, bw.EgressBurst)

\* The effective entry asks for egress shaping.
ShapesEgress(conf) ==
    /\ getBandwidth(conf).present
    /\ Configured(getBandwidth(conf).EgressRate, getBandwidth(conf).EgressBurst)

\* Request b is request a again, with a's previous result or the result the
\* Add for a printed.
SameInvocation(a, out, b) ==
    /\ b.ContainerID = a.ContainerID /\ b.IfName = a.IfName /\ b.Netns = a.Netns
    /\ b.conf.parse = a.conf.parse /\ b.conf.Name = a.conf.Name
    /\ b.conf.top = a.conf.top /\ b.conf.runtime = a.conf.runtime
    /\ b.conf.prev \in {a.conf.prev, out}

NoPred ==
    [ok |-> FALSE, shapes |-> FALSE, egress |-> FALSE, same |-> FALSE,
     device |-> FALSE, other |-> FALSE, ifb |-> ""]

\* What the invocation d, which came before one for the request req, was: an
\* Add that succeeded with no step of another invocation since it began (ok),
\* whether it shaped some direction, whether egress, whether req is its
\* request again (same), for the same network and container (device) or for
\* another container (other), and the name of its ifb device.
PredOf(d, req) ==
    IF d.op = "add" /\ d.ret = Ok /\ d.alone
    THEN [ok |-> TRUE, shapes |-> Shapes(d.req.conf), egress |-> ShapesEgress(d.req.conf),
          same |-> SameInvocation(d.req, d.out, req),
          device |-> /\ req.conf.Name = d.req.conf.Name
                     /\ req.ContainerID = d.req.ContainerID,
          other |-> req.ContainerID # d.req.ContainerID,
          ifb |-> getIfbDeviceName(d.req.conf.Name, d.req.ContainerID)]
    ELSE NoPred

Invocation(op, req, fault) ==
    [op |-> op, req |-> req, fault |-> fault, pc |-> "enter", ret |-> "",
     out |-> NoResult, peerIndex |-> 0, host |-> "", at |-> 0, link |-> 0, mtu |-> 0,
     added |-> <<>>, dl |-> DlNone, alone |-> TRUE, others |-> 0, before |-> NoLinks,
     pred |-> NoPred]

InvNone == [Invocation("none", NoReq, "none") EXCEPT !.pc = "none"]

NoInvs == [p \in InvProcs |-> InvNone]

InFlight(r) == r.pc \notin {"none", "done"}

\* return e, with out printed before it
Return(r, e, out) == [r EXCEPT !.pc = "done", !.ret = e, !.out = out]

\* A variant of the failure return of cmdAdd that puts the tables back as
\* they were when the invocation began.
AddFailsRolledBack(r, L, e) == [r |-> Return(r, e, NoResult), L |-> r.before]

\* cmdAdd returning the error e, with the tables as its steps have left them
\* (L); nothing is printed.
AddFails(r, L, e) == [r |-> Return(r, e, NoResult), L |-> L]

\* return types.PrintResult(result, conf.CNIVersion)
AddPrints(r, L, result) == [r |-> Return(r, PrintResult(result), result), L |-> L]

\* cmdAdd from its first statement to the first kernel call, the one that
\* resolves the peer index.
AddEnter(L, r) ==
    LET conf == r.req.conf
        bandwidth == getBandwidth(conf)
        host == getHostInterface(L, conf.prev.Interfaces, r.req.IfName)
    IN  IF parseConfig(conf) # Ok THEN AddFails(r, L, parseConfig(conf))
        ELSE IF ~bandwidth.present \/ isZero(bandwidth) THEN AddPrints(r, L, conf.prev)
        ELSE IF conf.prev.kind = "none" THEN AddFails(r, L, ErrNotChainedAdd)
        ELSE IF ~ValidNetns(r.req.Netns) THEN AddFails(r, L, ErrNetns)
        ELSE IF host.err # Ok THEN AddFails(r, L, host.err)
        ELSE [r |-> [r EXCEPT !.peerIndex = host.peerIndex, !.pc = "hostlink"], L |-> L]

\* if bandwidth.EgressRate > 0 && bandwidth.EgressBurst > 0 { ... }, up to
\* its first kernel call, or past it to the print of the result.
AddEgressOrPrint(r, L) ==
    LET bandwidth == getBandwidth(r.req.conf) IN
    IF Configured(bandwidth.EgressRate, bandwidth.EgressBurst)
    THEN [r |-> [r EXCEPT !.pc = "getmtu"], L |-> L]
    ELSE AddPrints(r, L, [kind |-> "ok",
                          Interfaces |-> r.req.conf.prev.Interfaces \o r.added])

\* The rest of getHostInterface, and cmdAdd up to the next kernel call.
AddHostLink(L, r) ==
    LET bandwidth == getBandwidth(r.req.conf)
        host == getHostInterfaceByIndex(L, r.req.conf.prev.Interfaces, r.peerIndex)
        found == [r EXCEPT !.host = host.Name, !.at = host.at]
    IN  IF host.err # Ok THEN AddFails(r, L, host.err)
        ELSE IF Configured(bandwidth.IngressRate, bandwidth.IngressBurst)
        THEN [r |-> [found EXCEPT !.pc = "ingress"], L |-> L]
        ELSE AddEgressOrPrint(found, L)

\* err = CreateIngressQdisc(bandwidth.IngressRate, bandwidth.IngressBurst, hostInterface.Name)
AddIngress(L, r) ==
    LET bandwidth == getBandwidth(r.req.conf)
        ing == CreateIngressQdisc(L[HostNS], bandwidth.IngressRate,
                                  bandwidth.IngressBurst, r.host)
        after == [L EXCEPT ![HostNS] = ing.tbl]
    IN  IF ing.err # Ok THEN AddFails(r, after, ing.err)
        ELSE AddEgressOrPrint(r, after)

\* mtu, err := getMTU(hostInterface.Name)
AddGetMTU(L, r) ==
    LET m == getMTU(L[HostNS], r.host, r.fault = "getmtu") IN
    IF m.err # Ok THEN AddFails(r, L, m.err)
    ELSE [r |-> [r EXCEPT !.mtu = m.mtu, !.pc = "createifb"], L |-> L]

\* err = CreateIfb(ifbDeviceName, mtu)
AddCreateIfb(L, r) ==
    LET ifbDeviceName == getIfbDeviceName(r.req.conf.Name, r.req.ContainerID)
        ifb == CreateIfb(L[HostNS], ifbDeviceName, r.mtu)
    IN  IF r.fault = "createifb"
        THEN AddFails(r, L, "adding link: operation not permitted")
        ELSE IF ifb.err # Ok THEN AddFails(r, L, ifb.err)
        ELSE [r |-> [r EXCEPT !.pc = "ifblookup"], L |-> [L EXCEPT ![HostNS] = ifb.tbl]]

\* ifbDevice, err := netlinksafe.LinkByName(ifbDeviceName), and the append
\* to result.Interfaces
AddIfbLookup(L, r) ==
    LET ifbDeviceName == getIfbDeviceName(r.req.conf.Name, r.req.ContainerID)
        ifbDevice == LinkByName(L[HostNS], ifbDeviceName)
    IN  IF r.fault = "ifblookup" \/ ifbDevice = NoLink THEN AddFails(r, L, ErrNoSuchLink)
        ELSE [r |-> [r EXCEPT !.added = <<IfbInterface(ifbDeviceName, ifbDevice)>>,
                              !.pc = "egress"],
              L |-> L]

\* err = CreateEgressQdisc(bandwidth.EgressRate, bandwidth.EgressBurst,
\* hostInterface.Name, ifbDeviceName), and the print of the result
AddEgress(L, r) ==
    LET bandwidth == getBandwidth(r.req.conf)
        ifbDeviceName == getIfbDeviceName(r.req.conf.Name, r.req.ContainerID)
        eg == CreateEgressQdisc(L[HostNS], bandwidth.EgressRate, bandwidth.EgressBurst,
                                r.host, ifbDeviceName)
        after == [L EXCEPT ![HostNS] = eg.tbl]
    IN  IF r.fault = "egressqdisc"
        THEN AddFails(r, L, "create qdisc: operation not permitted")
        ELSE IF eg.err # Ok THEN AddFails(r, after, eg.err)
        ELSE AddPrints(r, after, [kind |-> "ok",
                                  Interfaces |-> r.req.conf.prev.Interfaces \o r.added])

\* The next step of the invocation r of cmdAdd on the tables L: the
\* invocation and the tables after it.
cmdAdd(L, r) ==
    CASE r.pc = "enter" -> AddEnter(L, r)
      [] r.pc = "hostlink" -> AddHostLink(L, r)
      [] r.pc = "ingress" -> AddIngress(L, r)
      [] r.pc = "getmtu" -> AddGetMTU(L, r)
      [] r.pc = "createifb" -> AddCreateIfb(L, r)
      [] r.pc = "ifblookup" -> AddIfbLookup(L, r)
      [] r.pc = "egress" -> AddEgress(L, r)

\* cmdCheck from its first statement to the first kernel call, the one that
\* resolves the peer index.
CheckEnter(L, r) ==
    LET bwConf == r.req.conf
        host == getHostInterface(L, bwConf.prev.Interfaces, r.req.IfName)
    IN  IF parseConfig(bwConf) # Ok THEN Return(r, parseConfig(bwConf), NoResult)
        ELSE IF bwConf.prev.kind = "none" THEN Return(r, ErrNotChainedCheck, NoResult)
        ELSE IF ~ValidNetns(r.req.Netns) THEN Return(r, ErrNetns, NoResult)
        ELSE IF host.err # Ok THEN Return(r, host.err, NoResult)
        ELSE [r EXCEPT !.peerIndex = host.peerIndex, !.pc = "hostlink"]

\* The rest of getHostInterface.
CheckHostLink(L, r) ==
    LET host == getHostInterfaceByIndex(L, r.req.conf.prev.Interfaces, r.peerIndex) IN
    IF host.err # Ok THEN Return(r, host.err, NoResult)
    ELSE [r EXCEPT !.host = host.Name, !.at = host.at, !.pc = "link"]

\* if bandwidth.EgressRate > 0 && bandwidth.EgressBurst > 0 { ... }, up to
\* its first kernel call, or past it to return nil.
CheckEgressOrReturn(r) ==
    LET bandwidth == getBandwidth(r.req.conf) IN
    IF Configured(bandwidth.EgressRate, bandwidth.EgressBurst)
    THEN [r EXCEPT !.pc = "ifb"]
    ELSE Return(r, Ok, NoResult)

\* link, err := netlinksafe.LinkByName(hostInterface.Name), and the reads of
\* the entry getBandwidth returns, which is not tested for nil.
CheckLink(L, r) ==
    LET link == LinkByName(L[HostNS], r.host)
        bandwidth == getBandwidth(r.req.conf)
        held == [r EXCEPT !.link = link.index]
    IN  IF link = NoLink THEN Return(r, ErrNoSuchLink, NoResult)
        ELSE IF ~bandwidth.present THEN Return(held, Panic, NoResult)
        ELSE IF Configured(bandwidth.IngressRate, bandwidth.IngressBurst)
        THEN [held EXCEPT !.pc = "ingresslist"]
        ELSE CheckEgressOrReturn(held)

\* qdiscs, err := SafeQdiscList(link), and the loop over them
CheckIngress(L, r) ==
    LET bandwidth == getBandwidth(r.req.conf)
        e == CheckDirection(L[HostNS], r.link, bandwidth.IngressRate,
                            bandwidth.IngressBurst, r.fault = "ingresslist")
    IN  IF e # Ok THEN Return(r, e, NoResult) ELSE CheckEgressOrReturn(r)

\* ifbDevice, err := netlinksafe.LinkByName(ifbDeviceName)
CheckIfb(L, r) ==
    LET ifbDevice == LinkByName(L[HostNS],
                                getIfbDeviceName(r.req.conf.Name, r.req.ContainerID))
    IN  IF ifbDevice = NoLink THEN Return(r, ErrGetIfb, NoResult)
        ELSE [r EXCEPT !.link = ifbDevice.index, !.pc = "egresslist"]

\* qdiscs, err := SafeQdiscList(ifbDevice), the loop over them, return nil
CheckEgress(L, r) ==
    LET bandwidth == getBandwidth(r.req.conf) IN
    Return(r, CheckDirection(L[HostNS], r.link, bandwidth.EgressRate,
                             bandwidth.EgressBurst, r.fault = "egresslist"),
           NoResult)

\* The next step of the invocation r of cmdCheck on the tables L, which it
\* leaves as they are.
cmdCheck(L, r) ==
    [r |-> CASE r.pc = "enter" -> CheckEnter(L, r)
             [] r.pc = "hostlink" -> CheckHostLink(L, r)
             [] r.pc = "link" -> CheckLink(L, r)
             [] r.pc = "ingresslist" -> CheckIngress(L, r)
             [] r.pc = "ifb" -> CheckIfb(L, r)
             [] r.pc = "egresslist" -> CheckEgress(L, r),
     L |-> L]

\* cmdDel after a kernel call of DelLinkByNameAddr (s: the call and the
\* tables after it): it returns what TeardownIfb makes of the call's error.
DelAfter(r, s) ==
    [r |-> IF s.d.pc = "done"
           THEN Return([r EXCEPT !.dl = s.d], TeardownIfb(s.d.err), NoResult)
           ELSE [r EXCEPT !.dl = s.d, !.pc = "teardown"],
     L |-> s.L]

\* A variant of cmdDel's first step that does not look at parseConfig's error.
DelEnterUnparsed(L, r) ==
    DelAfter(r, DlLookupStep(L, HostNS,
                             DlCall("DelLinkByNameAddr",
                                    getIfbDeviceName(r.req.conf.Name, r.req.ContainerID),
                                    r.fault)))

\* cmdDel from its first statement to the first kernel call, the lookup of
\* DelLinkByNameAddr in TeardownIfb.
DelEnter(L, r) ==
    LET ifbDeviceName == getIfbDeviceName(r.req.conf.Name, r.req.ContainerID) IN
    IF parseConfig(r.req.conf) # Ok
    THEN [r |-> Return(r, parseConfig(r.req.conf), NoResult), L |-> L]
    ELSE DelAfter(r, DlLookupStep(L, HostNS,
                                  DlCall("DelLinkByNameAddr", ifbDeviceName, r.fault)))

\* The next step of the invocation r of cmdDel on the tables L.
cmdDel(L, r) ==
    IF r.pc = "enter" THEN DelEnter(L, r)
    ELSE DelAfter(r, DelLinkStep(L, HostNS, r.dl))

(***************************************************************************)
(* The plugin's invocations as actions.  Invocation 1 is the one the       *)
(* properties are stated of, with every request; invocation 2 is another   *)
(* process that begins while invocation 1 is at work.                      *)
(***************************************************************************)
NoCall == [fn |-> "none"]
MvOff ==
    [pc |-> "off", name |-> "", hint |-> "", mtu |-> 0, mac |-> "", fault |-> "none",
     i |-> 0, peerName |-> "", gens |-> 0, attempts |-> 0, rejected |-> 0,
     cleanups |-> 0, made |-> 0, veth |-> 0, err |-> ""]

\* Check is also run with the result the last Add printed as its prevResult,
\* and with a listing of the disciplines that fails.
CheckInputs ==
    {[req |-> r, fault |-> "none"] : r \in BaseRequests}
    \cup (IF inv[1].op = "add" /\ inv[1].ret = Ok /\ inv[1].out.kind = "ok"
          THEN {[req |-> [inv[1].req EXCEPT !.conf.prev = inv[1].out], fault |-> "none"]}
          ELSE {})
    \cup {[req |-> MkReq(MkConf(<<EntryBoth, NilEntry>>, PrevGood), "cid1", ContIfName,
                         NetnsPath),
           fault |-> f] : f \in CheckFaults}

\* The inputs of the command op in invocation p.
Inputs(p, op) ==
    IF p = 2 THEN {[req |-> i.req, fault |-> i.fault] : i \in {x \in OverlapInputs : x.op = op}}
    ELSE CASE op = "add" -> AddInputs
           [] op = "check" -> CheckInputs
           [] op = "del" -> DelInputs

\* Invocation 1 begins when no invocation is at work; invocation 2 while
\* invocation 1, one of the overlapping kind, is.
MayBegin(p) ==
    IF p = 1 THEN ~InFlight(inv[1]) /\ ~InFlight(inv[2])
    ELSE /\ InFlight(inv[1]) /\ ~InFlight(inv[2])
         /\ inv[1].others < MaxOthers
         /\ [op |-> inv[1].op, req |-> inv[1].req, fault |-> inv[1].fault] \in OverlapInputs

\* The invocation of op on the input in as it begins in invocation p.
Begin(p, op, in) ==
    [Invocation(op, in.req, in.fault) EXCEPT
        !.before = links,
        !.pred = IF p = 1 THEN PredOf(inv[1], in.req) ELSE NoPred]

\* What is kept of an invocation that has returned.
Settle(r) ==
    IF r.pc = "done" THEN [r EXCEPT !.before = NoLinks, !.pred = NoPred, !.others = 0]
    ELSE r

\* The first step of invocation p (s: the invocation and the tables after it).
Start(p, s) ==
    /\ links' = s.L
    /\ inv' = IF p = 1 THEN [q \in InvProcs |-> IF q = 1 THEN Settle(s.r) ELSE InvNone]
              ELSE [inv EXCEPT ![2] = Settle(s.r),
                               ![1] = [@ EXCEPT !.alone = FALSE, !.others = @ + 1]]
    /\ UNCHANGED <<call, mv>>

\* A later step of invocation p.
Advance(p, s) ==
    /\ links' = s.L
    /\ inv' = IF p = 1 THEN [inv EXCEPT ![1] = Settle(s.r)]
              ELSE [inv EXCEPT ![2] = Settle(s.r), ![1] = [@ EXCEPT !.alone = FALSE]]
    /\ UNCHANGED <<call, mv>>

Add(p) ==
    /\ MayBegin(p)
    /\ \E in \in Inputs(p, "add") : Start(p, cmdAdd(links, Begin(p, "add", in)))

AddCall(p) ==
    /\ inv[p].op = "add" /\ InFlight(inv[p])
    /\ Advance(p, cmdAdd(links, inv[p]))

Check(p) ==
    /\ MayBegin(p)
    /\ \E in \in Inputs(p, "check") : Start(p, cmdCheck(links, Begin(p, "check", in)))

CheckCall(p) ==
    /\ inv[p].op = "check" /\ InFlight(inv[p])
    /\ Advance(p, cmdCheck(links, inv[p]))

Del(p) ==
    /\ MayBegin(p)
    /\ \E in \in Inputs(p, "del") : Start(p, cmdDel(links, Begin(p, "del", in)))

DelCall(p) ==
    /\ inv[p].op = "del" /\ InFlight(inv[p])
    /\ Advance(p, cmdDel(links, inv[p]))

\* Before the plugin runs: the veth pair of the container, made by the stage
\* before; the host end has no discipline listed or the kernel's default.
InitLinks ==
    {[c \in Namespaces |->
        IF c = ContNS THEN {VethEnd(ContIfName, 2, 5, 1500, "0a:00:00:00:00:01")}
        ELSE {[VethEnd(HostIfName, 5, 2, 1500, "") EXCEPT !.qdiscs = qs]}] :
      qs \in {<<>>, <<PfifoFast>>}}

Init ==
    /\ links \in InitLinks
    /\ inv = NoInvs
    /\ call = NoCall
    /\ mv = [p \in VethProcs |-> MvOff]

Next ==
    \/ \E p \in InvProcs : Add(p)
    \/ \E p \in InvProcs : AddCall(p)
    \/ \E p \in InvProcs : Check(p)
    \/ \E p \in InvProcs : CheckCall(p)
    \/ \E p \in InvProcs : Del(p)
    \/ \E p \in InvProcs : DelCall(p)

Spec == Init /\ [][Next]_vars

(***************************************************************************)
(* Claims about Add, Check and Del (under Spec)                            *)
(***************************************************************************)
\* The disciplines of a link other than the kernel's default one.
Shaping(link) == {link.qdiscs[k] : k \in {j \in 1..Len(link.qdiscs) :
                                            link.qdiscs[j].kind # "pfifo_fast"}}

\* The link has a token bucket with the rate, buffer and limit that follow
\* from the configured rate and burst.
HasMatchingTbf(link, rate, burst) ==
    \E q \in Shaping(link) :
        /\ q.kind = "tbf"
        /\ q.Rate = ExpectedTbf(rate, burst).Rate
        /\ q.Buffer = ExpectedTbf(rate, burst).Buffer
        /\ q.Limit = ExpectedTbf(rate, burst).Limit

IfbOf(req) == LinkByName(links[HostNS], getIfbDeviceName(req.conf.Name, req.ContainerID))

\* Invocation 1 returns in this step.
Returns == inv'[1].pc = "done" /\ (InFlight(inv[1]) \/ ~InFlight(inv[2]))

\* Invocation 1 begins in this step and has not returned by its end.
Begins == ~InFlight(inv[1]) /\ InFlight(inv'[1])

\* The tables as they were when the invocation that takes this step began.
Before == IF InFlight(inv[1]) THEN inv[1].before ELSE links

\* What the invocation before the one that takes this step was.
Pred == IF InFlight(inv[1]) THEN inv[1].pred ELSE PredOf(inv[1], inv'[1].req)

\* C1: a Check gets past the verification of a configured direction only if
\* the link it listed (the host-side link for ingress, the ifb device for
\* egress) has a matching token bucket.
C1_CheckFindsMatchingTbf ==
    [][ \A p \in InvProcs :
          LET r == inv[p]
              bw == getBandwidth(r.req.conf)
              listed == LinkByIndex(links[HostNS], r.link)
              returnsOk == inv'[p].pc = "done" /\ inv'[p].ret = Ok
          IN  /\ (r.op = "check" /\ r.pc = "ingresslist"
                    /\ (inv'[p].pc = "ifb" \/ returnsOk)) =>
                    HasMatchingTbf(listed, bw.IngressRate, bw.IngressBurst)
              /\ (r.op = "check" /\ r.pc = "egresslist" /\ returnsOk) =>
                    HasMatchingTbf(listed, bw.EgressRate, bw.EgressBurst) ]_vars

\* C2: no invocation of Add, Check or Del ends in a panic.
C2_NoAbort == \A p \in InvProcs : inv[p].ret # Panic

\* C3: a Check that directly follows a successful Add of a shaping
\* configuration, with the same configuration and arguments, no other
\* invocation taking a step from the Add's first to the Check's last and no
\* listing refused by the kernel, succeeds.
C3_CheckAfterAdd ==
    [][ ( /\ Returns /\ inv'[1].op = "check" /\ inv'[1].fault = "none" /\ inv'[1].alone
          /\ Pred.ok /\ Pred.shapes /\ Pred.same )
        => inv'[1].ret = Ok ]_vars

\* C3 witness: a Check has succeeded on the result an Add printed for both
\* directions, with both token buckets in place.
C3_Witness ==
    /\ inv[1].op = "check" /\ inv[1].ret = Ok /\ inv[1].alone
    /\ getBandwidth(inv[1].req.conf) = EntryBoth
    /\ Len(inv[1].req.conf.prev.Interfaces) = 3
    /\ HasMatchingTbf(LinkByName(links[HostNS], HostIfName), RateA, BurstA)
    /\ HasMatchingTbf(IfbOf(inv[1].req), RateB, BurstB)

\* C9: a Del whose configuration parses and whose device lookup finds no link
\* returns success from that lookup and leaves the link tables as they were.
C9_DelIdempotent ==
    [][ ( /\ Returns \/ Begins
          /\ ~InFlight(inv[1])
          /\ inv'[1].op = "del"
          /\ parseConfig(inv'[1].req.conf) = Ok
          /\ inv'[1].fault # "lookup"
          /\ IfbOf(inv'[1].req) = NoLink )
        => (Returns /\ inv'[1].ret = Ok /\ links' = links) ]_vars

\* C9 witness: Del has succeeded for a container whose ifb device was never
\* made (no ifb device and no token bucket exist).
C9_Witness ==
    /\ inv[1].op = "del" /\ inv[1].ret = Ok /\ inv[1].fault = "none"
    /\ inv[1].dl.err = ErrLinkNotFound
    /\ \A l \in links[HostNS] : l.kind # "ifb" /\ \A q \in Shaping(l) : q.kind # "tbf"

\* The effective entry is absent or all of its four fields are zero.
NothingToShape(conf) ==
    \/ ~conf.top.present /\ ~conf.runtime.present
    \/ conf.top.present /\ conf.top = EntryZero
    \/ ~conf.top.present /\ conf.runtime = EntryZero

\* C10: an Add whose configuration parses and whose effective entry is absent
\* or all zero succeeds, passes the previous result on as it is (also when
\* there is none) and leaves the link tables as they were.
C10_AddNoOp ==
    [][ ( /\ Returns \/ Begins
          /\ ~InFlight(inv[1])
          /\ inv'[1].op = "add"
          /\ parseConfig(inv'[1].req.conf) = Ok
          /\ NothingToShape(inv'[1].req.conf) )
        => ( /\ Returns /\ inv'[1].ret = Ok
             /\ inv'[1].out = inv'[1].req.conf.prev /\ links' = links ) ]_vars

\* C11: the interface list of the result of a successful Add starts with the
\* previous result's list, entry for entry; with egress shaping configured it
\* has exactly one entry more, the ifb device's name and hardware address,
\* and otherwise it is the previous list.
C11_ResultAppendsOnly ==
    [][ (Returns /\ inv'[1].op = "add" /\ inv'[1].ret = Ok) =>
          LET req == inv'[1].req
              prev == req.conf.prev.Interfaces
              out == inv'[1].out.Interfaces
              bw == getBandwidth(req.conf)
              n == Len(prev)
              ifb == LinkByName(links'[HostNS],
                                getIfbDeviceName(req.conf.Name, req.ContainerID))
          IN  /\ Len(out) >= n /\ SubSeq(out, 1, n) = prev
              /\ IF bw.present /\ Configured(bw.EgressRate, bw.EgressBurst)
                 THEN /\ Len(out) = n + 1
                      /\ ifb.kind = "ifb"
                      /\ out[n + 1].Name = ifb.name
                      /\ out[n + 1].Mac = ifb.mac /\ out[n + 1].Mac # ""
                 ELSE out = prev ]_vars

\* C11 witness: an Add for both directions has returned the two entries of
\* the previous result followed by the entry of the ifb device it made.
C11_Witness ==
    /\ inv[1].op = "add" /\ inv[1].ret = Ok
    /\ getBandwidth(inv[1].req.conf) = EntryBoth
    /\ Len(inv[1].out.Interfaces) = 3
    /\ inv[1].out.Interfaces[3].Name = getIfbDeviceName(NetName, inv[1].req.ContainerID)
    /\ IfbOf(inv[1].req).kind = "ifb"

\* The errors that report a fault of the configuration.
ConfigErrors ==
    {ErrParseConf, ErrPrevParse, ErrBurstNotSet, ErrRateNotSet, ErrBurstTooBig,
     ErrNotChainedAdd, ErrNotChainedCheck}

\* The effective entry is present and some field of it is not zero.
HasNonzeroField(conf) ==
    getBandwidth(conf).present /\ getBandwidth(conf) # EntryZero

\* C12: with no previous result, an Add whose effective entry has a nonzero
\* field and every Check return, before any kernel call, a configuration
\* error (the one that asks for a chained call when the configuration is
\* otherwise sound) and leave the link tables as they were.
C12_UnchainedIsConfigError ==
    [][ ( /\ Returns \/ Begins
          /\ ~InFlight(inv[1])
          /\ inv'[1].req.conf.prev.kind = "none"
          /\ \/ inv'[1].op = "add" /\ HasNonzeroField(inv'[1].req.conf)
             \/ inv'[1].op = "check" )
        => ( /\ Returns
             /\ inv'[1].ret \in ConfigErrors
             /\ parseConfig(inv'[1].req.conf) = Ok =>
                   inv'[1].ret = (IF inv'[1].op = "add" THEN ErrNotChainedAdd
                                  ELSE ErrNotChainedCheck)
             /\ links' = links ) ]_vars

\* C12 witness: an Add for egress only, with no previous result, has been
\* refused as not chained while shaping from an earlier Add is in place.
C12_Witness ==
    /\ inv[1].op = "add" /\ inv[1].ret = ErrNotChainedAdd
    /\ getBandwidth(inv[1].req.conf) = EntryEgress
    /\ inv[1].req.conf.prev = NoResult
    /\ \E l \in links[HostNS] : l.kind = "ifb"

\* C13: a Del that follows a successful Add with egress shaping, for the same
\* network name and container ID, with a configuration that parses, no
\* failing kernel call and no step of another invocation since the Add
\* began, succeeds; afterwards no link has the ifb device's name, and every
\* other link of either namespace is as it was.
C13_DelRemovesOnlyIfb ==
    [][ ( /\ Returns /\ inv'[1].op = "del" /\ inv'[1].fault = "none" /\ inv'[1].alone
          /\ parseConfig(inv'[1].req.conf) = Ok
          /\ Pred.ok /\ Pred.egress /\ Pred.device )
        => LET ifb == LinkByName(Before[HostNS], Pred.ifb) IN
           /\ inv'[1].ret = Ok
           /\ ifb.kind = "ifb"
           /\ links'[HostNS] = Before[HostNS] \ {ifb}
           /\ links'[ContNS] = Before[ContNS]
           /\ LinkByName(links'[HostNS], HostIfName) # NoLink ]_vars

\* C13 witness: Del has deleted the device, no ifb device is left, and the
\* host-side link still carries the ingress discipline an egress Add had put
\* on it.
C13_Witness ==
    /\ inv[1].op = "del" /\ inv[1].ret = Ok /\ inv[1].alone
    /\ inv[1].dl.pc = "done" /\ inv[1].dl.err = Ok
    /\ \A l \in links[HostNS] : l.kind # "ifb"
    /\ \E k \in 1..Len(LinkByName(links[HostNS], HostIfName).qdiscs) :
          LinkByName(links[HostNS], HostIfName).qdiscs[k].kind = "ingress"

\* C14: a Del for a container other than the one a successful egress Add was
\* made for derives another device name than that Add did, and the ifb
\* device the Add made is still there after it (no other invocation having
\* taken a step).
C14_DelSparesOtherContainers ==
    [][ ( /\ Returns /\ inv'[1].op = "del" /\ inv'[1].alone
          /\ Pred.ok /\ Pred.egress /\ Pred.other )
        => ( /\ getIfbDeviceName(inv'[1].req.conf.Name, inv'[1].req.ContainerID)
                  # Pred.ifb
             /\ LinkByName(links'[HostNS], Pred.ifb).kind = "ifb" ) ]_vars

\* The entry C16 calls effective: the top-level one if there is one, else the
\* runtime one (absent if both are).
EffectiveEntry(conf) == IF conf.top.present THEN conf.top ELSE conf.runtime

\* Both directions of an entry pass the validation.
ValidEntry(bw) ==
    /\ validateRateAndBurst(bw.IngressRate, bw.IngressBurst) = Ok
    /\ validateRateAndBurst(bw.EgressRate, bw.EgressBurst) = Ok

\* C16: for a configuration that is well-formed JSON, the entry in force is
\* the effective entry; Add, Check and Del return a validation error exactly
\* when the effective entry is present and invalid; and an Add with a sound
\* previous result is a no-op (success, nothing changed since it began)
\* exactly when the effective entry is absent or all zero.
C16_EffectiveEntry ==
    [][ (Returns /\ inv'[1].req.conf.parse) =>
          LET conf == inv'[1].req.conf
              eff == EffectiveEntry(conf)
          IN  /\ getBandwidth(conf) = eff
              /\ (inv'[1].ret \in {ErrBurstNotSet, ErrRateNotSet, ErrBurstTooBig})
                    <=> (eff.present /\ ~ValidEntry(eff))
              /\ (inv'[1].op = "add" /\ conf.prev.kind = "ok"
                     /\ (eff.present => ValidEntry(eff)))
                    => ( (inv'[1].ret = Ok /\ links' = Before /\ inv'[1].out = conf.prev)
                           <=> (~eff.present \/ eff = EntryZero) ) ]_vars

\* C16 witness: an Add with an all-zero top-level entry and a runtime entry
\* that asks for ingress shaping has passed the previous result on.
C16_Witness ==
    /\ inv[1].op = "add" /\ inv[1].ret = Ok
    /\ inv[1].req.conf.top = EntryZero /\ inv[1].req.conf.runtime = EntryIngress
    /\ inv[1].out = PrevGood
    /\ \A l \in links[HostNS] : \A q \in Shaping(l) : q.kind # "tbf"

\* The link has no discipline that stands in the way of a token bucket.
NoRootShaper(link) == \A k \in 1..Len(link.qdiscs) : ~IsRootShaper(link.qdiscs[k])

\* C17: an Add for both directions that attaches the ingress token bucket
\* (the host-side link had none) and whose egress part then fails returns an
\* error and prints nothing; the ingress token bucket is on the host-side
\* link afterwards, and when the failure came after the creation of the ifb
\* device (its lookup, or the egress discipline), that device is there too.
\* No other invocation takes a step meanwhile.
C17_NoRollback ==
    [][ ( /\ Returns /\ inv'[1].op = "add" /\ inv'[1].fault \in AddFaults
          /\ inv'[1].alone
          /\ getBandwidth(inv'[1].req.conf) = EntryBoth
          /\ NoRootShaper(LinkByName(Before[HostNS], HostIfName))
          /\ LinkByName(Before[HostNS],
                        getIfbDeviceName(inv'[1].req.conf.Name,
                                         inv'[1].req.ContainerID)) = NoLink )
        => LET host == LinkByName(links'[HostNS], HostIfName)
               ifb == LinkByName(links'[HostNS],
                                 getIfbDeviceName(inv'[1].req.conf.Name,
                                                  inv'[1].req.ContainerID))
           IN  /\ inv'[1].ret \notin {Ok, Panic} /\ inv'[1].out = NoResult
               /\ HasMatchingTbf(host, RateA, BurstA)
               /\ inv'[1].fault \in {"ifblookup", "egressqdisc"} => ifb.kind = "ifb"
               /\ inv'[1].fault \in {"getmtu", "createifb"} => ifb = NoLink ]_vars

\* C17 witness: an Add has failed at the egress discipline; the ingress token
\* bucket and the ifb device it made before are in place.
C17_Witness ==
    /\ inv[1].op = "add" /\ inv[1].fault = "egressqdisc" /\ inv[1].pc = "done"
    /\ inv[1].ret \notin {Ok, Panic} /\ inv[1].alone
    /\ HasMatchingTbf(LinkByName(links[HostNS], HostIfName), RateA, BurstA)
    /\ IfbOf(inv[1].req).kind = "ifb"

(***************************************************************************)
(* validateRateAndBurst on its own (SpecValidate)                          *)
(***************************************************************************)
\* Values around the limbs' and the check's boundaries.
RateSamples == {Zero64, <<0, 0, 0, 1>>, <<0, 0, 1, 0>>, <<Limb - 1, Limb - 1, Limb - 1, Limb - 1>>}
BurstSamples ==
    {<<a, b, c, d>> : a \in {0, Limb - 1}, b \in {0, 7, 8}, c \in {0, Limb - 1},
                      d \in {0, 1, 7, 8, Limb - 9, Limb - 8, Limb - 1}}

InitValidate ==
    /\ call \in {[fn |-> "validateRateAndBurst", rate |-> r, burst |-> b, res |-> "pending"] :
                    r \in RateSamples, b \in BurstSamples}
    /\ links = NoLinks
    /\ inv = NoInvs
    /\ mv = [p \in VethProcs |-> MvOff]

Validate ==
    /\ call.fn = "validateRateAndBurst" /\ call.res = "pending"
    /\ call' = [call EXCEPT !.res = validateRateAndBurst(call.rate, call.burst)]
    /\ UNCHANGED <<links, inv, mv>>

NextValidate == Validate

SpecValidate == InitValidate /\ [][NextValidate]_vars

\* u < 2^32
Below2Pow32(u) == u[1] = 0 /\ u[2] = 0

\* C4: validate succeeds exactly when rate and burst are both zero or both
\* nonzero and burst/8 is below 2^32, and otherwise returns one of its
\* configuration errors.
C4_ValidateIff ==
    call.res # "pending" =>
        /\ call.res = Ok <=>
              /\ U64IsZero(call.rate) <=> U64IsZero(call.burst)
              /\ Below2Pow32(U64Div8(call.burst))
        /\ call.res \in {Ok, ErrBurstNotSet, ErrRateNotSet, ErrBurstTooBig}

(***************************************************************************)
(* GetVethPeerIfindex on its own (SpecPeer)                                *)
(***************************************************************************)
ParentSamples == {-1, 0, 1, 32767, 32768, 40000}
StatSamples ==
    {{}, {<<"tx_packets", 3>>}}
    \cup {{<<"tx_packets", 3>>, <<"peer_ifindex", n>>} : n \in {0, 1, 32767, 32768, 70000}}

PeerLink(kind, parent, stats) ==
    [name |-> ContIfName, kind |-> kind, index |-> 2, parentIndex |-> parent,
     stats |-> stats, mtu |-> 1500, mac |-> "", addrs |-> {}, qdiscs |-> <<>>]

NoPeer == [link |-> NoLink, peerIndex |-> 0, err |-> ""]

InitPeer ==
    /\ links \in {[NoLinks EXCEPT ![ContNS] = t] :
                    t \in {{}} \cup {{PeerLink(k, pi, st)} : k \in {"veth", "dummy"},
                                                              pi \in ParentSamples,
                                                              st \in StatSamples}}
    /\ call = [fn |-> "GetVethPeerIfindex", ifName |-> ContIfName, eth |-> EthUp,
               done |-> FALSE, res |-> NoPeer]
    /\ inv = NoInvs
    /\ mv = [p \in VethProcs |-> MvOff]

PeerIndex ==
    /\ call.fn = "GetVethPeerIfindex" /\ ~call.done
    /\ \E eth \in [init : BOOLEAN, stats : BOOLEAN] :
          call' = [call EXCEPT !.eth = eth, !.done = TRUE,
                               !.res = GetVethPeerIfindex(links[ContNS], call.ifName, eth)]
    /\ UNCHANGED <<links, inv, mv>>

NextPeer == PeerIndex

SpecPeer == InitPeer /\ [][NextPeer]_vars

\* C8 as stated: a peer index returned with success lies in 1..32767.
C8_IndexInRange ==
    (call.done /\ call.res.err = Ok) => call.res.peerIndex \in 1..32767

\* C8 amended: a peer index returned with success is positive and belongs to a
\* veth link; it is the kernel's parent index whenever that is positive (with
\* no upper limit), and otherwise the peer_ifindex counter, which then lies in
\* 1..32767; a link that is no veth, and on the fallback a missing or
\* out-of-range counter, give an error.
C8_IndexPositive ==
    call.done =>
        LET l == LinkByName(links[ContNS], call.ifName)
            counter == {p[2] : p \in {q \in l.stats : q[1] = "peer_ifindex"}}
        IN  /\ call.res.err = Ok =>
                  /\ l.kind = "veth" /\ call.res.peerIndex >= 1
                  /\ l.parentIndex > 0 => call.res.peerIndex = l.parentIndex
                  /\ l.parentIndex <= 0 =>
                        call.res.peerIndex \in 1..32767 /\ counter = {call.res.peerIndex}
            /\ l.kind # "veth" => call.res.err # Ok
            /\ (l.parentIndex <= 0 /\ counter \cap (1..32767) = {}) => call.res.err # Ok

\* C8 witness: the statistics fallback has returned the largest index it accepts.
C8_Witness ==
    /\ call.done /\ call.res.err = Ok /\ call.res.peerIndex = 32767
    /\ LinkByName(links[ContNS], call.ifName).parentIndex <= 0

(***************************************************************************)
(* makeVeth, one invocation at a time (SpecVeth)                           *)
(***************************************************************************)
KnownNames == <<ContIfName>> \o VethNameOf

\* A link made by someone else, of a kind that is not veth.
OtherLink(name) ==
    [name |-> name, kind |-> "dummy",
     index |-> 10 + (CHOOSE k \in 1..Len(KnownNames) : KnownNames[k] = name),
     parentIndex |-> 0, stats |-> {}, mtu |-> 1500, mac |-> "", addrs |-> {},
     qdiscs |-> <<>>]

VethCall(hint, mac, fault) ==
    [pc |-> "loop", name |-> ContIfName, hint |-> hint, mtu |-> 1500, mac |-> mac,
     fault |-> fault, i |-> 0, peerName |-> "", gens |-> 0, attempts |-> 0,
     rejected |-> 0, cleanups |-> 0, made |-> 0, veth |-> 0, err |-> ""]

InitVeth ==
    /\ links \in {[c \in Namespaces |->
                     {OtherLink(n) : n \in (IF c = ContNS THEN cn ELSE hn)}] :
                    cn \in SUBSET ({ContIfName} \cup GenNames), hn \in SUBSET GenNames}
    /\ \E hint \in {"", RandomVethName(1)}, mac \in {"", "0a:00:00:00:00:01", "zz"},
          fault \in VethFaults :
          mv = [p \in VethProcs |-> IF p = 1 THEN VethCall(hint, mac, fault) ELSE MvOff]
    /\ inv = NoInvs
    /\ call = NoCall

NextVeth ==
    \/ MvLoop(1)
    \/ MvAdd(1)
    \/ MvRefetch(1)
    \/ MvCleanup(1)
    \/ MvExists(1)

SpecVeth == InitVeth /\ [][NextVeth]_vars

\* The kernel would accept some name the generator can produce.
SomeNameFree == \E e \in 1..NumEntropy : RandomVethName(e) \notin LinkNames(links[HostNS])

\* C5: without a hint, rejections of generated peer names (the container-side
\* name being free) never end the call in the collision error while fewer
\* than 10 were made and a free name remains; and a call that succeeds has
\* made one attempt more than it had rejections, each with a fresh name, and
\* returns the name of the peer it created.
C5_RetriesUntilFree ==
    \A p \in VethProcs :
        LET r == mv[p] IN
        (r.pc = "done" /\ r.hint = "" /\ r.fault = "none") =>
            /\ ~( /\ r.err = ErrPeerExists
                  /\ r.name \notin LinkNames(links[ContNS])
                  /\ r.rejected < MaxVethAttempts
                  /\ SomeNameFree )
            /\ r.err = Ok =>
                  /\ r.attempts = r.rejected + 1 /\ r.gens = r.attempts
                  /\ LinkByName(links[HostNS], r.peerName).kind = "veth"

\* C6: without a hint, a call all of whose generated peer names were rejected
\* (the container-side name being free) has made exactly 10 attempts and
\* fails with the error of the exhausted names; no call makes an 11th.
C6_TenAttemptsThenExhausted ==
    \A p \in VethProcs :
        LET r == mv[p] IN
        /\ r.attempts <= MaxVethAttempts
        /\ ( /\ r.pc = "done" /\ r.hint = "" /\ r.fault = "none"
             /\ r.gens >= 1 /\ r.rejected = r.gens
             /\ r.name \notin LinkNames(links[ContNS]) )
           => ( /\ r.attempts = MaxVethAttempts
                /\ r.err = ErrNoUniqueName
                /\ ErrNoUniqueName \notin {ErrPeerExists, ErrMakeVeth} )

\* C7: a call goes round again after a rejection only if it has no hint and
\* the peer name it generated is the name that collided (it is taken where
\* the peer was to be created); a call with a hint that is rejected fails
\* with the collision error after its one attempt, no name generated.
C7_FailsUnlessOwnNameCollided ==
    \A p \in VethProcs :
        LET r == mv[p] IN
        /\ (r.pc = "loop" /\ r.i > 0) =>
              (r.hint = "" /\ r.peerName \in LinkNames(links[HostNS]))
        /\ (r.pc = "done" /\ r.rejected >= 1 /\ r.hint # "") =>
              (r.err = ErrPeerExists /\ r.attempts = 1 /\ r.gens = 0)

\* C18: once the re-fetch after a successful creation has failed, the call
\* makes one delete of the pair and no further creation attempt, and ends in
\* the error of a failed creation (which carries the re-fetch error); when
\* that delete succeeded, neither the container-side link nor the peer the
\* call created is left.
C18_RefetchFailureCleansUpOnce ==
    [][ \A p \in VethProcs :
          LET r == mv[p] IN
          /\ r.pc = "cleanup" =>
                /\ mv'[p].pc = "done" /\ mv'[p].err = ErrMakeVeth
                /\ mv'[p].cleanups = 1 /\ mv'[p].attempts = r.attempts
                /\ mv'[p].peerName = r.peerName
                /\ r.fault = "refetch" =>
                      /\ r.name \notin LinkNames(links'[ContNS])
                      /\ r.peerName \notin LinkNames(links'[HostNS])
                /\ r.fault = "refetchdel" => links' = links
          /\ (r.pc = "refetch" /\ mv'[p].pc \notin {"refetch", "done"}) =>
                mv'[p].pc = "cleanup"
          /\ r.cleanups >= 1 => (mv'[p] = r /\ r.pc = "done") ]_vars

\* C18 witness: a call has ended after a failed re-fetch and one successful
\* delete; the links it had created are gone from both namespaces.
C18_Witness ==
    /\ mv[1].pc = "done" /\ mv[1].fault = "refetch" /\ mv[1].cleanups = 1
    /\ mv[1].attempts >= 1 /\ mv[1].err = ErrMakeVeth
    /\ mv[1].name \notin LinkNames(links[ContNS])
    /\ mv[1].peerName \notin LinkNames(links[HostNS])

(***************************************************************************)
(***************************************************************************)
(* makeVeth, two invocations at a time, with other processes that create,  *)
(* rename and delete links (SpecVethConc).  call counts the steps the      *)
(* other processes still take (left) and holds their call of RenameLink    *)
(* (rn).                                                                   *)
(***************************************************************************)
\* The number of steps the other processes take.
EnvSteps == 2

SecondIfName == "eth1"

\* The names the other processes rename from and to.
RenameNames == GenNames \cup {ContIfName, "net0"}

InitVethConc ==
    /\ links \in {[c \in Namespaces |->
                     {OtherLink(n) : n \in (IF c = ContNS THEN {} ELSE hn)}] :
                    hn \in SUBSET GenNames}
    /\ mv = [p \in VethProcs |->
               IF p = 1 THEN VethCall("", "", "none")
               ELSE [VethCall("", "", "none") EXCEPT !.name = SecondIfName]]
    /\ inv = NoInvs
    /\ call = [fn |-> "env", left |-> EnvSteps, rn |-> RnNone]

EnvStep == call.fn = "env" /\ call.left > 0 /\ call' = [call EXCEPT !.left = @ - 1]

\* Another process creates a link under a name of the generator's.
EnvCreate ==
    /\ EnvStep
    /\ \E c \in Namespaces, n \in GenNames :
          /\ n \notin LinkNames(links[c])
          /\ links' = [links EXCEPT ![c] = @ \cup {[OtherLink(n) EXCEPT
                                                      !.index = FreshIndex(links[c])]}]
    /\ UNCHANGED <<inv, mv>>

\* Another process deletes a link.
EnvDelete ==
    /\ EnvStep
    /\ \E c \in Namespaces : \E l \in links[c] : links' = PairDel(links, c, l.name)
    /\ UNCHANGED <<inv, mv>>

\* Another process calls RenameLink(curName, newName) in a namespace: the
\* lookup of curName.
EnvRename ==
    /\ call.fn = "env" /\ call.left > 0 /\ call.rn.pc # "setname"
    /\ \E c \in Namespaces, cur \in RenameNames, new \in RenameNames :
          LET s == RenameLink(links, [RnNone EXCEPT !.curName = cur, !.newName = new,
                                                    !.ns = c, !.pc = "lookup"])
          IN  /\ links' = s.L
              /\ call' = [call EXCEPT !.left = @ - 1, !.rn = s.n]
    /\ UNCHANGED <<inv, mv>>

\* The call of RenameLink goes on: netlink.LinkSetName.
EnvSetName ==
    /\ call.fn = "env" /\ call.rn.pc = "setname"
    /\ LET s == RenameLink(links, call.rn) IN
       /\ links' = s.L
       /\ call' = [call EXCEPT !.rn = s.n]
    /\ UNCHANGED <<inv, mv>>

NextVethConc ==
    \/ \E p \in VethProcs : MvLoop(p)
    \/ \E p \in VethProcs : MvAdd(p)
    \/ \E p \in VethProcs : MvRefetch(p)
    \/ \E p \in VethProcs : MvCleanup(p)
    \/ \E p \in VethProcs : MvExists(p)
    \/ EnvCreate
    \/ EnvDelete
    \/ EnvRename
    \/ EnvSetName

SpecVethConc == InitVethConc /\ [][NextVethConc]_vars

\* The peer that invocation p created is still the link of that name.
HoldsPeer(p) ==
    LET h == LinkByName(links[HostNS], mv[p].peerName)
        c == LinkByName(links[ContNS], mv[p].name)
    IN  /\ mv[p].pc = "done" /\ mv[p].err = Ok
        /\ c.kind = "veth" /\ c.index = mv[p].veth
        /\ h.kind = "veth" /\ h.parentIndex = c.index /\ c.parentIndex = h.index

\* C15: here no container-side name is ever taken, so every rejection is one
\* of a generated peer name: no invocation ends in the collision error, one
\* that ends for lack of a unique name has made 10 attempts, and two
\* invocations that hold their peers hold peers of different names.
C15_CollisionsAreRetried ==
    /\ \A p \in VethProcs :
          mv[p].pc = "done" =>
              /\ mv[p].err # ErrPeerExists
              /\ mv[p].err = ErrNoUniqueName => mv[p].attempts = MaxVethAttempts
    /\ \A p, q \in VethProcs :
          (p # q /\ HoldsPeer(p) /\ HoldsPeer(q)) => mv[p].peerName # mv[q].peerName

(***************************************************************************)
(* DelLinkByName and DelLinkByNameAddr, one kernel call at a time, while   *)
(* another process adds and removes addresses (SpecDelLink).  call is the  *)
(* invocation: fn, ifName, the fault the kernel injects, its position pc,  *)
(* the link found (iface, an index), the addresses listed (addrs), what it *)
(* returns (out, err), and the steps the other process still takes (env).  *)
(***************************************************************************)
\* The number of steps the other process takes.
AddrEnvSteps == 2

AddrSamples ==
    {[ip |-> "10.0.0.2", global |-> TRUE], [ip |-> "2001:db8::2", global |-> TRUE],
     [ip |-> "fe80::1", global |-> FALSE]}

DelTarget == getIfbDeviceName(NetName, "cid1")

InitDelLink ==
    /\ \E present \in BOOLEAN, as \in SUBSET AddrSamples :
          links = [c \in Namespaces |->
                     IF c = ContNS THEN {}
                     ELSE {[VethEnd(HostIfName, 5, 2, 1500, "") EXCEPT
                               !.addrs = {[ip |-> "10.0.0.1", global |-> TRUE]}]}
                          \cup (IF present
                                THEN {[NoLink EXCEPT !.name = DelTarget, !.kind = "ifb",
                                                     !.index = 7, !.mtu = 1500,
                                                     !.addrs = as]}
                                ELSE {})]
    /\ \E fn \in {"DelLinkByName", "DelLinkByNameAddr"},
          fault \in {"none", "lookup", "addrlist", "del"} :
          call = [fn |-> fn, ifName |-> DelTarget, fault |-> fault, pc |-> "lookup",
                  iface |-> 0, addrs |-> {}, out |-> {}, err |-> "",
                  env |-> AddrEnvSteps]
    /\ inv = NoInvs
    /\ mv = [p \in VethProcs |-> MvOff]

\* iface, err := netlinksafe.LinkByName(ifName)
DlLookup ==
    /\ call.fn \in {"DelLinkByName", "DelLinkByNameAddr"} /\ call.pc = "lookup"
    /\ LET s == DelLinkStep(links, HostNS, call) IN call' = s.d /\ links' = s.L
    /\ UNCHANGED <<inv, mv>>

\* addrs, err := netlinksafe.AddrList(iface, netlink.FAMILY_ALL)
DlAddrList ==
    /\ call.fn = "DelLinkByNameAddr" /\ call.pc = "addrlist"
    /\ LET s == DelLinkStep(links, HostNS, call) IN call' = s.d /\ links' = s.L
    /\ UNCHANGED <<inv, mv>>

\* netlink.LinkDel(iface), and the selection of the addresses to return
DlDelete ==
    /\ call.fn \in {"DelLinkByName", "DelLinkByNameAddr"} /\ call.pc = "del"
    /\ LET s == DelLinkStep(links, HostNS, call) IN call' = s.d /\ links' = s.L
    /\ UNCHANGED <<inv, mv>>

\* Another process adds an address to the link or removes one from it.
EnvAddr ==
    /\ call.fn \in {"DelLinkByName", "DelLinkByNameAddr"} /\ call.env > 0
    /\ call.pc # "done"
    /\ \E a \in AddrSamples :
          LET l == LinkByName(links[HostNS], call.ifName) IN
          /\ l # NoLink
          /\ links' = [links EXCEPT ![HostNS] =
                          (@ \ {l}) \cup {[l EXCEPT !.addrs = IF a \in @ THEN @ \ {a}
                                                              ELSE @ \cup {a}]}]
    /\ call' = [call EXCEPT !.env = @ - 1]
    /\ UNCHANGED <<inv, mv>>

NextDelLink == DlLookup \/ DlAddrList \/ DlDelete \/ EnvAddr

SpecDelLink == InitDelLink /\ [][NextDelLink]_vars

\* C19: the addresses DelLinkByNameAddr returns are the globally routable
\* ones the link has at the moment it is deleted.
C19_AddressesAsOfDeletion ==
    [][ ( /\ call.fn = "DelLinkByNameAddr" /\ call.pc = "del"
          /\ call'.pc = "done" /\ call'.err = Ok )
        => call'.out = GlobalUnicast(LinkByName(links[HostNS], call.ifName).addrs) ]_vars

\* A step of the invocation itself.
DlStep == call'.pc # call.pc

\* C20: the lookup ends the call in the sentinel exactly when it finds no
\* link of that name, and in a wrapped error when it fails otherwise; no
\* later step returns the sentinel, and a failed address listing or delete
\* returns its own wrapped error; a call that ends in an error of the lookup
\* or of the address listing, as every step before the delete, has changed
\* no link; DelLinkByName lists no addresses.
C20_SentinelOnlyForAbsence ==
    [][ DlStep =>
          LET absent == LinkByName(links[HostNS], call.ifName) = NoLink IN
          /\ call.pc = "lookup" =>
                /\ (call'.err = ErrLinkNotFound) <=> (absent /\ call.fault # "lookup")
                /\ call.fault = "lookup" => (call'.pc = "done" /\ call'.err = ErrLookup)
                /\ call'.pc = "addrlist" <=> ( /\ call.fn = "DelLinkByNameAddr"
                                               /\ ~absent /\ call.fault # "lookup" )
          /\ call.pc # "lookup" => call'.err # ErrLinkNotFound
          /\ (call.pc = "addrlist" /\ call.fault = "addrlist") =>
                (call'.pc = "done" /\ call'.err = ErrAddrList)
          /\ (call.pc = "del" /\ call.fault = "del") =>
                (call'.pc = "done" /\ call'.err = ErrDelete)
          /\ (call.pc \in {"lookup", "addrlist"} \/ call'.err # Ok) => links' = links
          /\ call'.pc = "done" => call'.err \in {Ok, ErrLinkNotFound, ErrLookup,
                                                  ErrAddrList, ErrDelete}
          /\ ErrLinkNotFound \notin {ErrLookup, ErrAddrList, ErrDelete} ]_vars

\* C20 witness: DelLinkByNameAddr has returned the sentinel for a name no
\* link has, and the other link of the table is as it was.
C20_Witness ==
    /\ call.fn = "DelLinkByNameAddr" /\ call.pc = "done" /\ call.err = ErrLinkNotFound
    /\ call.fault = "none"
    /\ LinkNames(links[HostNS]) = {HostIfName}

(***************************************************************************)
(* getHostInterface, as cmdAdd and cmdCheck call it (SpecHostIface).       *)
(* call is the invocation: the command (op), its request, and once it has  *)
(* run the resolution's result (res) and the command's return (ret).       *)
(***************************************************************************)
HostEntry(name, sandbox) == [Name |-> name, Mac |-> "", Sandbox |-> sandbox]

\* Interface lists of a previous result.
InterfaceLists ==
    { <<>>,
      <<HostEntry(HostIfName, ""), HostEntry(ContIfName, NetnsPath)>>,
      <<HostEntry(HostIfName, NetnsPath)>>,
      <<HostEntry(HostIfName, NetnsPath), HostEntry(HostIfName, "")>>,
      <<HostEntry(ContIfName, NetnsPath), HostEntry("veth9", "")>>,
      <<HostEntry("veth9", ""), HostEntry(HostIfName, ""), HostEntry(HostIfName, "")>>,
      <<HostEntry(ContIfName, "")>> }

\* The container's table: no link, one that is no veth, a veth whose peer
\* index the kernel reports (5, 6), or one for which only the statistics do.
ContTables ==
    {{}, {[VethEnd(ContIfName, 2, 0, 1500, "") EXCEPT !.kind = "dummy"]},
     {VethEnd(ContIfName, 2, 0, 1500, "")},
     {[VethEnd(ContIfName, 2, 0, 1500, "") EXCEPT !.stats = {<<"peer_ifindex", 5>>}]}}
    \cup {{VethEnd(ContIfName, 2, pi, 1500, "")} : pi \in {5, 6}}

\* The host's table: the peer under its name or another, at index 5 or 6, and
\* possibly a veth of the container-side name with a peer index of its own.
HostTables ==
    {{}, {VethEnd(HostIfName, 5, 2, 1500, "")},
     {VethEnd(HostIfName, 6, 2, 1500, "")},
     {VethEnd("veth9", 5, 2, 1500, ""), VethEnd(HostIfName, 6, 3, 1500, "")},
     {VethEnd(HostIfName, 5, 2, 1500, ""), VethEnd(ContIfName, 6, 5, 1500, "")},
     {VethEnd(ContIfName, 5, 6, 1500, ""), VethEnd(HostIfName, 6, 2, 1500, "")}}

InitHostIface ==
    /\ links \in {[c \in Namespaces |-> IF c = ContNS THEN ct ELSE ht] :
                    ct \in ContTables, ht \in HostTables}
    /\ \E op \in {"add", "check"}, ifs \in InterfaceLists :
          call = [fn |-> "getHostInterface", op |-> op,
                  req |-> MkReq(MkConf(<<EntryIngress, NilEntry>>,
                                       [kind |-> "ok", Interfaces |-> ifs]),
                                "cid1", ContIfName, NetnsPath),
                  done |-> FALSE]
    /\ inv = NoInvs
    /\ mv = [p \in VethProcs |-> MvOff]

\* cmdAdd or cmdCheck begins on the request, up to the kernel call of
\* getHostInterface that resolves the peer index.
ResolveHost ==
    /\ call.fn = "getHostInterface" /\ ~call.done
    /\ LET r == Begin(1, call.op, [req |-> call.req, fault |-> "none"])
           s == IF call.op = "add" THEN cmdAdd(links, r) ELSE cmdCheck(links, r)
       IN  /\ links' = s.L
           /\ inv' = [inv EXCEPT ![1] = Settle(s.r)]
    /\ call' = [call EXCEPT !.done = TRUE]
    /\ UNCHANGED mv

NextHostIface == ResolveHost \/ AddCall(1) \/ CheckCall(1)

SpecHostIface == InitHostIface /\ [][NextHostIface]_vars

\* C21: the resolution takes the peer index GetVethPeerIfindex resolves in
\* the container's table and then the link hl the host's table has at that
\* index; it goes on only with an entry of the list that has no sandbox and
\* the name of hl; when the list is empty, the index is not positive, hl does
\* not exist or no entry without a sandbox has hl's name, Add and Check
\* return the resolution's error and no link is changed; Add and Check
\* resolve alike.
C21_HostInterfaceResolution ==
    [][ LET ifs == call.req.conf.prev.Interfaces
            r == inv'[1]
        IN
        /\ (call.fn = "getHostInterface" /\ ~call.done /\ call'.done) =>
              LET peer == GetVethPeerIfindex(links[ContNS], call.req.IfName, EthUp) IN
              /\ links' = links
              /\ IF Len(ifs) = 0 \/ peer.peerIndex <= 0
                 THEN /\ r.pc = "done" /\ r.at = 0
                      /\ r.ret = (IF Len(ifs) = 0 THEN ErrNoInterfaces ELSE ErrNoVethPeer)
                 ELSE /\ r.pc = "hostlink"
                      /\ peer.err = Ok /\ r.peerIndex = peer.peerIndex
        /\ (call.fn = "getHostInterface" /\ inv[1].pc = "hostlink") =>
              LET hl == LinkByIndex(links[HostNS], inv[1].peerIndex)
                  noEntry == \A k \in 1..Len(ifs) :
                                ~(ifs[k].Sandbox = "" /\ ifs[k].Name = hl.name)
              IN  /\ links' = links
                  /\ IF hl = NoLink \/ noEntry
                     THEN /\ r.pc = "done" /\ r.at = 0
                          /\ r.ret = (IF hl = NoLink THEN ErrPeerNotInHost
                                      ELSE ErrNoHostIface)
                     ELSE /\ r.pc = (IF r.op = "add" THEN "ingress" ELSE "link")
                          /\ r.at \in 1..Len(ifs)
                          /\ ifs[r.at].Sandbox = "" /\ ifs[r.at].Name = hl.name
                          /\ r.host = ifs[r.at].Name ]_vars

\* C21 witness: the only entry with the host link's name ahead of the one
\* returned carries a sandbox; the second, without one, was returned, and Add
\* has shaped the host link of that name.
C21_Witness ==
    /\ call.fn = "getHostInterface" /\ call.done /\ call.op = "add"
    /\ inv[1].pc = "done" /\ inv[1].at = 2 /\ inv[1].ret = Ok
    /\ call.req.conf.prev.Interfaces[1] = HostEntry(HostIfName, NetnsPath)
    /\ HasMatchingTbf(LinkByName(links[HostNS], HostIfName), RateA, BurstA)

(***************************************************************************)
(* Configuration errors come before every kernel call (under Spec)         *)
(***************************************************************************)
\* One direction breaks the invariant of rate and burst: one of the two is
\* zero and the other is not, or burst/8 does not fit in 32 bits.
BreaksRateBurst(rate, burst) ==
    \/ U64IsZero(rate) # U64IsZero(burst)
    \/ ~Below2Pow32(U64Div8(burst))

\* The configuration is malformed, its effective entry breaks the invariant
\* in a direction, or its previous result cannot be parsed.
BadConfiguration(conf) ==
    \/ ~conf.parse
    \/ /\ EffectiveEntry(conf).present
       /\ \/ BreaksRateBurst(EffectiveEntry(conf).IngressRate,
                             EffectiveEntry(conf).IngressBurst)
          \/ BreaksRateBurst(EffectiveEntry(conf).EgressRate,
                             EffectiveEntry(conf).EgressBurst)
    \/ conf.prev.kind = "bad"

\* C22: an Add, Check or Del whose configuration is malformed, whose
\* effective entry breaks the rate/burst invariant in a direction, or whose
\* previous result cannot be parsed returns one of parseConfig's errors
\* (the parse error when the document is malformed) before any kernel call
\* and leaves every link and discipline as it was, whatever failure the
\* kernel had in store; a Del leaves the container's ifb device in place.
C22_ConfigErrorsPrecedeEffects ==
    [][ ( /\ Returns \/ Begins
          /\ ~InFlight(inv[1])
          /\ BadConfiguration(inv'[1].req.conf) )
        => ( /\ Returns
             /\ inv'[1].ret \in {ErrParseConf, ErrPrevParse, ErrBurstNotSet,
                                 ErrRateNotSet, ErrBurstTooBig}
             /\ ~inv'[1].req.conf.parse => inv'[1].ret = ErrParseConf
             /\ inv'[1].out = NoResult
             /\ links' = links ) ]_vars

\* C22 witness: a Del whose previous result cannot be parsed has returned
\* that error, and the ifb device of its network and container, with the
\* token bucket an earlier Add put on it, is still there.
C22_Witness ==
    /\ inv[1].op = "del" /\ inv[1].fault = "none"
    /\ inv[1].req.conf.parse /\ inv[1].req.conf.prev.kind = "bad"
    /\ inv[1].ret = ErrPrevParse
    /\ IfbOf(inv[1].req).kind = "ifb"
    /\ HasMatchingTbf(IfbOf(inv[1].req), RateB, BurstB)

====
